---------------------------- MODULE Spec2Model ----------------------------
(***************************************************************************)
(* A model of the argument expansion engine of src/src/expand.cpp.         *)
(*                                                                         *)
(* Strings are sequences of one-character tokens.  The markers of the      *)
(* internal alphabet are tokens of their own, so a marker can never be     *)
(* confused with a user character.  Positions are 0-based, as in the C++   *)
(* code; At0(s, p) reads the terminating NUL past the end of a string.     *)
(***************************************************************************)
EXTENDS Integers, Sequences, FiniteSets, TLC

(***************************************************************************)
(* The marker alphabet (common.h / expand.h).                              *)
(***************************************************************************)
NUL == "<NUL>"
INTERNAL_SEPARATOR == "<SEP>"
VARIABLE_EXPAND == "<VAR>"
VARIABLE_EXPAND_SINGLE == "<VAR1>"
VARIABLE_EXPAND_EMPTY == "<VAR0>"
PROCESS_EXPAND == "<PROC>"
HOME_DIRECTORY == "<HOME>"
BRACKET_BEGIN == "<BB>"
BRACKET_END == "<BE>"
BRACKET_SEP == "<BS>"
ANY_CHAR == "<ANY1>"
ANY_STRING == "<ANY>"
ANY_STRING_RECURSIVE == "<ANYR>"

\* expand_error_t (expand.h): the results of a stage and of expand_string.
EXPAND_ERROR == "EXPAND_ERROR"
EXPAND_OK == "EXPAND_OK"
EXPAND_WILDCARD_NO_MATCH == "EXPAND_WILDCARD_NO_MATCH"
EXPAND_WILDCARD_MATCH == "EXPAND_WILDCARD_MATCH"

\* expand_flags_t (expand.h).
EXPAND_SKIP_CMDSUBST == "EXPAND_SKIP_CMDSUBST"
EXPAND_SKIP_VARIABLES == "EXPAND_SKIP_VARIABLES"
EXPAND_SKIP_WILDCARDS == "EXPAND_SKIP_WILDCARDS"
EXPAND_FOR_COMPLETIONS == "EXPAND_FOR_COMPLETIONS"
EXECUTABLES_ONLY == "EXECUTABLES_ONLY"
EXPAND_NO_DESCRIPTIONS == "EXPAND_NO_DESCRIPTIONS"
EXPAND_SKIP_JOBS == "EXPAND_SKIP_JOBS"
EXPAND_SKIP_HOME_DIRECTORIES == "EXPAND_SKIP_HOME_DIRECTORIES"
EXPAND_SPECIAL_FOR_CD == "EXPAND_SPECIAL_FOR_CD"
EXPAND_SPECIAL_FOR_COMMAND == "EXPAND_SPECIAL_FOR_COMMAND"

\* complete.h: the flag bits of a completion.
COMPLETE_REPLACES_TOKEN == "COMPLETE_REPLACES_TOKEN"
COMPLETE_DONT_ESCAPE_TILDES == "COMPLETE_DONT_ESCAPE_TILDES"

\* parse_constants.h: the codes of an error record, and the unknown position.
parse_error_syntax == "parse_error_syntax"
parse_error_cmdsubst == "parse_error_cmdsubst"
SOURCE_LOCATION_UNKNOWN == "SOURCE_LOCATION_UNKNOWN"

(***************************************************************************)
(* The external state the engine reads:                                    *)
(*   env            the environment store: variable name -> value list     *)
(*                  (a name outside its domain is a missing variable)      *)
(*   history        the items of the history store, most recent first      *)
(*   is_main_thread whether the call runs on the main thread               *)
(* and the process-wide state the engine keeps:                            *)
(*   abbreviations  the abbreviation map: key -> expansion                 *)
(*   a_pc           "idle" while the map is in use                         *)
(*   a_last         for every key, the operation and the variable read     *)
(*                  of the most recent update_abbr_cache naming it         *)
(*   a_call         the most recent call on the map, its result and the    *)
(*                  map it met                                             *)
(***************************************************************************)
VARIABLES env, history, is_main_thread, abbreviations, a_pc, a_last, a_call

extvars == <<env, history, is_main_thread, abbreviations, a_pc, a_last, a_call>>

(***************************************************************************)
(* String helpers (std::wstring and the C string functions).               *)
(***************************************************************************)
At0(s, p) == IF p >= 0 /\ p < Len(s) THEN s[p + 1] ELSE NUL

\* wcstring(s, pos, n): the n characters of s from position pos.
Sub0(s, pos, n) == SubSeq(s, pos + 1, pos + n)

\* The rest of s from position pos (wcstring::npos as the length).
From0(s, pos) == SubSeq(s, pos + 1, Len(s))

Contains(s, c) == \E k \in 1..Len(s) : s[k] = c

ContainsAny(s, cs) == \E k \in 1..Len(s) : s[k] \in cs

\* string_prefixes_string(proposed_prefix, value).
string_prefixes_string(p, s) == Len(p) <= Len(s) /\ SubSeq(s, 1, Len(p)) = p

string_suffixes_string(p, s) ==
    Len(p) <= Len(s) /\ SubSeq(s, Len(s) - Len(p) + 1, Len(s)) = p

\* Position of the first c in s at or after position p, or Len(s) if none.
RECURSIVE FindFrom(_, _, _)
FindFrom(s, c, p) ==
    IF p >= Len(s) THEN Len(s)
    ELSE IF s[p + 1] = c THEN p ELSE FindFrom(s, c, p + 1)

\* The concatenation of a sequence of strings.
RECURSIVE Concat(_)
Concat(ss) == IF ss = <<>> THEN <<>> ELSE Head(ss) \o Concat(Tail(ss))

\* append_completion(out, s): a completion is its text and its flag bits.
Completion(s) == [completion |-> s, flags |-> {}]

Texts(cs) == [k \in 1..Len(cs) |-> cs[k].completion]

(***************************************************************************)
(* Error list.                                                             *)
(***************************************************************************)
ParseError(start, code, text) ==
    [source_start |-> start, source_length |-> 0, code |-> code, text |-> text]

\* Mutant of append_syntax_error: the error is dropped.
append_syntax_error_dropped(errors, source_start, text) == errors

append_syntax_error(errors, source_start, text) ==
    Append(errors, ParseError(source_start, parse_error_syntax, text))

append_cmdsub_error(errors, source_start, text) ==
    IF \E k \in 1..Len(errors) : errors[k].text = text
    THEN errors
    ELSE Append(errors, ParseError(source_start, parse_error_cmdsubst, text))

(***************************************************************************)
(* expand_is_clean                                                         *)
(***************************************************************************)
UNCLEAN_FIRST == {"~", "%"}
UNCLEAN == {"$", "*", "?", "\\", "\"", "'", "(", "{", "}", ")"}

\* Mutant of expand_is_clean: the empty string is not taken to be clean.
expand_is_clean_nonempty(in) ==
    in # <<>> /\ in[1] \notin UNCLEAN_FIRST /\ ~ContainsAny(in, UNCLEAN)

expand_is_clean(in) ==
    IF in = <<>> THEN TRUE
    ELSE IF in[1] \in UNCLEAN_FIRST THEN FALSE
    ELSE ~ContainsAny(in, UNCLEAN)

(***************************************************************************)
(* fish_wcstol (wutil.cpp): skips leading blanks, reads an optional sign   *)
(* and a run of decimal digits, then skips trailing blanks.  errno is      *)
(* EINVAL (22) when no digit was read, -1 when a character other than NUL  *)
(* follows the number, and 0 otherwise.                                    *)
(***************************************************************************)
WhiteSpace == {" "}
Digits == {"0", "1", "2", "3", "4", "5", "6", "7", "8", "9"}

DigitVal(c) ==
    CASE c = "0" -> 0 [] c = "1" -> 1 [] c = "2" -> 2 [] c = "3" -> 3
      [] c = "4" -> 4 [] c = "5" -> 5 [] c = "6" -> 6 [] c = "7" -> 7
      [] c = "8" -> 8 [] c = "9" -> 9

RECURSIVE SkipWhile(_, _, _)
SkipWhile(s, p, cs) == IF At0(s, p) \in cs THEN SkipWhile(s, p + 1, cs) ELSE p

\* The value of the digit run of s that starts at p, continuing from acc.
RECURSIVE DigitRun(_, _, _)
DigitRun(s, p, acc) ==
    IF At0(s, p) \in Digits
    THEN DigitRun(s, p + 1, 10 * acc + DigitVal(At0(s, p)))
    ELSE [val |-> acc, end |-> p]

fish_wcstol(s, pos) ==
    LET str == SkipWhile(s, pos, WhiteSpace)
        signed == At0(s, str) \in {"-", "+"}
        dstart == IF signed THEN str + 1 ELSE str
        run == DigitRun(s, dstart, 0)
        after == SkipWhile(s, run.end, WhiteSpace)
    IN  IF At0(s, str) = NUL \/ run.end = dstart
        THEN [val |-> 0, end |-> str, errno |-> 22]
        ELSE [val |-> IF At0(s, str) = "-" THEN 0 - run.val ELSE run.val,
              end |-> after,
              errno |-> IF At0(s, after) = NUL THEN 0 ELSE -1]

(***************************************************************************)
(* parse_slice                                                             *)
(***************************************************************************)
\* Mutant of slice_index: a negative index counts from size, not size + 1.
slice_index_off_by_one(tmp, size) == IF tmp > -1 THEN tmp ELSE size + tmp

\* An index as written to the index it denotes: -k is the k-th from the end.
slice_index(tmp, size) == IF tmp > -1 THEN tmp ELSE size + tmp + 1

\* Mutant of slice_clamp: the endpoint is not clamped.
slice_clamp_none(i, size) == i

\* An endpoint of a range, clamped to the size of the list.
slice_clamp(i, size) == IF i < size THEN i ELSE size

\* Mutant of slice_range_skipped: one endpoint beyond the list suffices.
slice_range_skipped_either(i1, i2, size) == i1 > size \/ i2 > size

\* A range whose two endpoints are both beyond the list contributes nothing.
slice_range_skipped(i1, i2, size) == i1 > size /\ i2 > size

\* Mutant of slice_range: a descending range is taken as empty.
slice_range_ascending_only(i1, i2) ==
    IF i2 < i1 THEN <<>> ELSE [k \in 1..(i2 - i1 + 1) |-> i1 + k - 1]

\* The indexes from i1 to i2 inclusive, in the direction i1 -> i2.
slice_range(i1, i2) ==
    LET direction == IF i2 < i1 THEN -1 ELSE 1
        count == (i2 - i1) * direction + 1
    IN  [k \in 1..count |-> i1 + (k - 1) * direction]

\* The loop of parse_slice over the text `in` (which starts with the opening
\* square bracket), from position pos, with the indexes collected so far.
RECURSIVE parse_slice_loop(_, _, _, _, _)
parse_slice_loop(in, pos0, idx, source_positions, size) ==
    LET pos == SkipWhile(in, pos0, WhiteSpace \cup {INTERNAL_SEPARATOR})
        bad(p) == [bad_pos |-> p, idx |-> idx,
                   source_positions |-> source_positions, end |-> p]
    IN  IF At0(in, pos) = "]"
        THEN [bad_pos |-> 0, idx |-> idx,
              source_positions |-> source_positions, end |-> pos + 1]
        ELSE
        LET n1 == fish_wcstol(in, pos) IN
        IF n1.errno > 0 THEN bad(pos)
        ELSE
        LET i1 == slice_index(n1.val, size)
            p1 == SkipWhile(in, n1.end, {INTERNAL_SEPARATOR})
        IN  IF At0(in, p1) = "." /\ At0(in, p1 + 1) = "."
            THEN
              LET number_start == SkipWhile(in, p1 + 2, {INTERNAL_SEPARATOR})
                  n2 == fish_wcstol(in, number_start)
              IN  IF n2.errno > 0 THEN bad(number_start)
                  ELSE
                  LET i2 == slice_index(n2.val, size) IN
                  IF slice_range_skipped(i1, i2, size)
                  THEN parse_slice_loop(in, n2.end, idx, source_positions, size)
                  ELSE
                  LET r == slice_range(slice_clamp(i1, size), slice_clamp(i2, size))
                  IN  parse_slice_loop(in, n2.end, idx \o r,
                          source_positions \o [k \in 1..Len(r) |-> number_start],
                          size)
            ELSE parse_slice_loop(in, p1, Append(idx, i1),
                                  Append(source_positions, pos), size)

\* parse_slice(in, &end, idx, source_positions, array_size): bad_pos is 0 on
\* success and the position of the bad token otherwise.
parse_slice(in, array_size) == parse_slice_loop(in, 1, <<>>, <<>>, array_size)

(***************************************************************************)
(* The environment store (env.h).                                          *)
(***************************************************************************)
\* maybe_t<env_var_t>: a variable that is present carries its value list.
Missing == [present |-> FALSE, vals |-> <<>>]
Present(vals) == [present |-> TRUE, vals |-> vals]

env_get(name) == IF name \in DOMAIN env THEN Present(env[name]) ELSE Missing

\* maybe_t<env_var_t>::missing_or_empty(): missing, or no value but "".
missing_or_empty(v) == ~v.present \/ v.vals = <<>> \/ v.vals = << <<>> >>

\* env_var_t::as_string(): the values joined by a space.
RECURSIVE join_with_spaces(_)
join_with_spaces(items) ==
    IF items = <<>> THEN <<>>
    ELSE IF Len(items) = 1 THEN items[1]
    ELSE items[1] \o <<" ">> \o join_with_spaces(Tail(items))

(***************************************************************************)
(* expand_variables                                                        *)
(***************************************************************************)
Letters == {"a", "b", "c", "d", "e", "f", "g", "h", "i", "j", "k", "l", "m",
            "n", "o", "p", "q", "r", "s", "t", "u", "v", "w", "x", "y", "z"}

\* valid_var_name_char (common.cpp): alphanumeric or underscore.
valid_var_name_char(c) == c \in Letters \cup Digits \cup {"_"}

HistoryName == <<"h", "i", "s", "t", "o", "r", "y">>

\* Mutant of locate_varexp: the first marker before last_idx, not the last.
locate_varexp_first(instr, last_idx) ==
    LET found == {p \in 0..(last_idx - 1) :
                     instr[p + 1] \in {VARIABLE_EXPAND, VARIABLE_EXPAND_SINGLE}}
    IN  IF found = {} THEN -1 ELSE CHOOSE p \in found : \A r \in found : p <= r

\* The position of the last VARIABLE_EXPAND or VARIABLE_EXPAND_SINGLE before
\* position last_idx, or -1 (npos) when there is none.
RECURSIVE locate_varexp(_, _)
locate_varexp(instr, last_idx) ==
    IF last_idx = 0 THEN -1
    ELSE IF instr[last_idx] \in {VARIABLE_EXPAND, VARIABLE_EXPAND_SINGLE}
         THEN last_idx - 1
         ELSE locate_varexp(instr, last_idx - 1)

\* The end of the variable name that starts at position p.
RECURSIVE var_name_end(_, _)
var_name_end(instr, p) ==
    IF p >= Len(instr) THEN p
    ELSE IF instr[p + 1] = VARIABLE_EXPAND_EMPTY THEN p + 1
    ELSE IF ~valid_var_name_char(instr[p + 1]) THEN p
    ELSE var_name_end(instr, p + 1)

\* Mutant of lookup_variable: the history is fetched on any thread.
lookup_variable_any_thread(var_name) ==
    IF var_name = HistoryName
    THEN [var |-> Missing, history |-> Present(history), reads |-> {"history"}]
    ELSE IF var_name # <<VARIABLE_EXPAND_EMPTY>>
    THEN [var |-> env_get(var_name), history |-> Missing, reads |-> {"env"}]
    ELSE [var |-> Missing, history |-> Missing, reads |-> {}]

\* The variable or the history a name stands for, with the stores read to
\* find it: reader_get_history for the name history on the main thread,
\* env_get for any other name but VARIABLE_EXPAND_EMPTY.
lookup_variable(var_name) ==
    IF var_name = HistoryName
    THEN [var |-> Missing,
          history |-> IF is_main_thread THEN Present(history) ELSE Missing,
          reads |-> IF is_main_thread THEN {"history"} ELSE {}]
    ELSE IF var_name # <<VARIABLE_EXPAND_EMPTY>>
    THEN [var |-> env_get(var_name), history |-> Missing, reads |-> {"env"}]
    ELSE [var |-> Missing, history |-> Missing, reads |-> {}]

\* The size a slice is parsed against: a missing variable counts as one
\* value.
effective_val_count(found) ==
    IF found.var.present THEN Len(found.var.vals)
    ELSE IF found.history.present THEN Len(found.history.vals)
    ELSE 1

\* Mutant of select_items: index 0 is taken as the first element.
select_items_zero_based(all_items, idx_list) ==
    LET pick(i) == IF i >= 0 /\ i < Len(all_items) THEN <<all_items[i + 1]>> ELSE <<>>
    IN  Concat([k \in 1..Len(idx_list) |-> pick(idx_list[k])])

\* The elements the indexes select: an index outside 1..size selects nothing.
select_items(all_items, idx_list) ==
    LET pick(i) == IF i >= 1 /\ i <= Len(all_items) THEN <<all_items[i]>> ELSE <<>>
    IN  Concat([k \in 1..Len(idx_list) |-> pick(idx_list[k])])

\* Mutant of single_new_in: the values are joined without the spaces.
single_new_in_unspaced(prefix, items, suffix) ==
    prefix \o (IF prefix # <<>> /\ prefix[Len(prefix)] # VARIABLE_EXPAND_SINGLE
               THEN <<INTERNAL_SEPARATOR>> ELSE <<>>)
           \o Concat(items) \o suffix

\* The string a present single-expansion recurses on.
single_new_in(prefix, items, suffix) ==
    LET mark == IF prefix = <<>> THEN <<>>
                ELSE IF prefix[Len(prefix)] # VARIABLE_EXPAND_SINGLE
                     THEN <<INTERNAL_SEPARATOR>>
                ELSE IF items = <<>> \/ items[1] = <<>>
                     THEN <<VARIABLE_EXPAND_EMPTY>>
                ELSE <<>>
    IN  prefix \o mark \o join_with_spaces(items) \o suffix

\* The string a missing single-expansion recurses on.
single_missing_new_in(prefix, suffix) ==
    prefix \o (IF prefix # <<>> /\ prefix[Len(prefix)] = VARIABLE_EXPAND_SINGLE
               THEN <<VARIABLE_EXPAND_EMPTY>> ELSE <<>>)
           \o suffix

\* Mutant of normal_new_in: the text after the reference is lost.
normal_new_in_no_suffix(prefix, item, suffix) ==
    prefix \o (IF prefix # <<>> /\ prefix[Len(prefix)] # VARIABLE_EXPAND
               THEN <<INTERNAL_SEPARATOR>> ELSE <<>>)
           \o item

\* Mutant of normal_new_in: the value is put in front of the string.
normal_new_in_value_first(prefix, item, suffix) == item \o prefix \o suffix

\* The string a normal expansion recurses on for one value.
normal_new_in(prefix, item, suffix) ==
    LET mark == IF prefix = <<>> THEN <<>>
                ELSE IF prefix[Len(prefix)] # VARIABLE_EXPAND
                     THEN <<INTERNAL_SEPARATOR>>
                ELSE IF item = <<>> THEN <<VARIABLE_EXPAND_EMPTY>>
                ELSE <<>>
    IN  prefix \o mark \o item \o suffix

\* Mutant of missing_normal_result: a missing variable is an error.
missing_normal_result_error(out, errors) ==
    [ok |-> FALSE, out |-> out,
     errors |-> append_syntax_error(errors, 0, "Unknown variable")]

\* Normal expansion of a missing variable succeeds with nothing.
missing_normal_result(out, errors) == [ok |-> TRUE, out |-> out, errors |-> errors]

\* expand_variables(instr, out, last_idx, errors) returns whether it
\* succeeded, the output list and the error list.  expand_variables_items is
\* its loop over the values of a normal expansion, from the k-th value on.
RECURSIVE expand_variables(_, _, _, _)
RECURSIVE expand_variables_items(_, _, _, _, _, _, _)

\* The values the reference denotes: the items of the variable (or of the
\* history), all of them or those the slice selects.
variables_item_list(found, all_values, slice) ==
    LET all_items == IF found.history.present THEN found.history.vals ELSE found.var.vals
    IN  IF all_values THEN all_items ELSE select_items(all_items, slice.idx)

\* After the slice has been parsed: the reference starts at varexp_char_idx
\* and its name ends before slice_start.
variables_sliced(instr, out, errors, varexp_char_idx, slice_start, found, slice) ==
    LET is_single == instr[varexp_char_idx + 1] = VARIABLE_EXPAND_SINGLE
        all_values == ~(slice_start < Len(instr) /\ instr[slice_start + 1] = "[")
        var_name_and_slice_stop == slice_start + slice.end
        prefix == Sub0(instr, 0, varexp_char_idx)
    IN
    IF slice.bad_pos # 0
    THEN [ok |-> FALSE, out |-> out,
          errors |-> append_syntax_error(errors, slice_start + slice.bad_pos,
                                         "Invalid index value")]
    ELSE IF ~found.var.present /\ ~found.history.present
    THEN IF ~is_single
         THEN missing_normal_result(out, errors)
         ELSE expand_variables(
                  single_missing_new_in(prefix, From0(instr, var_name_and_slice_stop)),
                  out, varexp_char_idx, errors)
    ELSE IF is_single
    THEN expand_variables(
             single_new_in(prefix, variables_item_list(found, all_values, slice),
                           From0(instr, var_name_and_slice_stop)),
             out, varexp_char_idx, errors)
    ELSE expand_variables_items(instr, variables_item_list(found, all_values, slice), 1,
                                varexp_char_idx, var_name_and_slice_stop, out, errors)

\* After the variable has been looked up.
variables_found(instr, out, errors, varexp_char_idx, slice_start, found) ==
    LET all_values == ~(slice_start < Len(instr) /\ instr[slice_start + 1] = "[")
    IN  variables_sliced(instr, out, errors, varexp_char_idx, slice_start, found,
            IF all_values
            THEN [bad_pos |-> 0, idx |-> <<>>, source_positions |-> <<>>, end |-> 0]
            ELSE parse_slice(From0(instr, slice_start), effective_val_count(found)))

\* After the name has been delimited: it runs from var_name_start up to
\* var_name_stop.
variables_named(instr, out, errors, varexp_char_idx, var_name_start, var_name_stop) ==
    IF var_name_stop - var_name_start = 0
    THEN \* parse_util_expand_variable_error
         [ok |-> FALSE, out |-> out,
          errors |-> append_syntax_error(errors, varexp_char_idx,
                                         "Expected a variable name")]
    ELSE variables_found(instr, out, errors, varexp_char_idx, var_name_stop,
             lookup_variable(Sub0(instr, var_name_start, var_name_stop - var_name_start)))

\* After the last marker before last_idx has been looked for.
variables_located(instr, out, last_idx, errors, varexp_char_idx) ==
    IF last_idx = 0 \/ varexp_char_idx < 0
    THEN [ok |-> TRUE, out |-> Append(out, Completion(instr)), errors |-> errors]
    ELSE variables_named(instr, out, errors, varexp_char_idx, varexp_char_idx + 1,
                         var_name_end(instr, varexp_char_idx + 1))

expand_variables(instr, out, last_idx, errors) ==
    variables_located(instr, out, last_idx, errors, locate_varexp(instr, last_idx))

\* One turn of the loop: r is what the recursive call on the k-th value gave.
variables_item_expanded(instr, items, k, varexp_char_idx, stop, r) ==
    IF ~r.ok THEN r
    ELSE expand_variables_items(instr, items, k + 1, varexp_char_idx, stop,
                                r.out, r.errors)

expand_variables_items(instr, items, k, varexp_char_idx, stop, out, errors) ==
    IF k > Len(items) THEN [ok |-> TRUE, out |-> out, errors |-> errors]
    ELSE IF varexp_char_idx = 0 /\ stop = Len(instr)
    THEN expand_variables_items(instr, items, k + 1, varexp_char_idx, stop,
                                Append(out, Completion(items[k])), errors)
    ELSE variables_item_expanded(instr, items, k, varexp_char_idx, stop,
             expand_variables(normal_new_in(Sub0(instr, 0, varexp_char_idx), items[k],
                                            From0(instr, stop)),
                              out, varexp_char_idx, errors))

\* The recursive calls that expand_variables(instr, out, last_idx, errors)
\* makes, in order, each with the string and the last_idx it passes.  The
\* loop of a normal expansion ends at the first call that fails; the calls
\* listed are those it makes when none fails.
variables_calls(instr, last_idx) ==
    LET varexp_char_idx == locate_varexp(instr, last_idx)
        var_name_stop == var_name_end(instr, varexp_char_idx + 1)
        found == lookup_variable(Sub0(instr, varexp_char_idx + 1,
                                      var_name_stop - (varexp_char_idx + 1)))
        all_values == ~(var_name_stop < Len(instr) /\ instr[var_name_stop + 1] = "[")
        slice == IF all_values
                 THEN [bad_pos |-> 0, idx |-> <<>>, source_positions |-> <<>>, end |-> 0]
                 ELSE parse_slice(From0(instr, var_name_stop), effective_val_count(found))
        stop == var_name_stop + slice.end
        is_single == instr[varexp_char_idx + 1] = VARIABLE_EXPAND_SINGLE
        prefix == Sub0(instr, 0, varexp_char_idx)
        items == variables_item_list(found, all_values, slice)
        call(new_in) == [instr |-> new_in, last_idx |-> varexp_char_idx]
    IN  IF last_idx = 0 \/ varexp_char_idx < 0 THEN <<>>
        ELSE IF var_name_stop - (varexp_char_idx + 1) = 0 THEN <<>>
        ELSE IF slice.bad_pos # 0 THEN <<>>
        ELSE IF ~found.var.present /\ ~found.history.present
        THEN IF is_single
             THEN << call(single_missing_new_in(prefix, From0(instr, stop))) >>
             ELSE <<>>
        ELSE IF is_single
        THEN << call(single_new_in(prefix, items, From0(instr, stop))) >>
        ELSE IF varexp_char_idx = 0 /\ stop = Len(instr) THEN <<>>
        ELSE [k \in 1..Len(items) |->
                call(normal_new_in(prefix, items[k], From0(instr, stop)))]

(***************************************************************************)
(* to_string<long>: a number as its decimal digits.                        *)
(***************************************************************************)
DigitChar(d) ==
    CASE d = 0 -> "0" [] d = 1 -> "1" [] d = 2 -> "2" [] d = 3 -> "3"
      [] d = 4 -> "4" [] d = 5 -> "5" [] d = 6 -> "6" [] d = 7 -> "7"
      [] d = 8 -> "8" [] d = 9 -> "9"

RECURSIVE FormatNat(_)
FormatNat(n) ==
    IF n < 10 THEN <<DigitChar(n)>>
    ELSE FormatNat(n \div 10) \o <<DigitChar(n % 10)>>

to_string(n) == IF n < 0 THEN <<"-">> \o FormatNat(0 - n) ELSE FormatNat(n)

(***************************************************************************)
(* The slice of a command substitution (expand_cmdsubst, the loop over     *)
(* slice_idx): an index outside 1..size selects nothing.                   *)
(***************************************************************************)
\* Mutant of slice_lines: an index beyond the end selects the last line.
slice_lines_saturating(sub_res, slice_idx) ==
    LET pick(i) == IF i < 1 \/ sub_res = <<>> THEN <<>>
                   ELSE IF i > Len(sub_res) THEN <<sub_res[Len(sub_res)]>>
                   ELSE <<sub_res[i]>>
    IN  Concat([k \in 1..Len(slice_idx) |-> pick(slice_idx[k])])

slice_lines(sub_res, slice_idx) ==
    LET pick(i) == IF i > Len(sub_res) \/ i < 1 THEN <<>> ELSE <<sub_res[i]>>
    IN  Concat([k \in 1..Len(slice_idx) |-> pick(slice_idx[k])])

(***************************************************************************)
(* unescape_string(input, UNESCAPE_SPECIAL | UNESCAPE_INCOMPLETE)          *)
(* (common.cpp): user syntax to the marker alphabet.  Outside quotes a     *)
(* backslash makes the next character literal, ~ and % in first position   *)
(* become HOME_DIRECTORY and PROCESS_EXPAND, $ becomes VARIABLE_EXPAND,    *)
(* * and ? become ANY_STRING and ANY_CHAR (a second * makes the first      *)
(* ANY_STRING_RECURSIVE), { } and a comma inside braces become the         *)
(* BRACKET markers, and a quote becomes INTERNAL_SEPARATOR.  Inside double *)
(* quotes $ becomes VARIABLE_EXPAND_SINGLE.  An unterminated quote or a    *)
(* trailing backslash ends the string.                                     *)
(***************************************************************************)
RECURSIVE unescape_from(_, _, _, _, _)
unescape_from(in, pos, mode, bracket_count, acc) ==
    IF pos >= Len(in) THEN acc
    ELSE
    LET c == in[pos + 1]
        next == At0(in, pos + 1)
        lit(ch, step) == unescape_from(in, pos + step, mode, bracket_count,
                                       Append(acc, ch))
    IN
    CASE mode = "unquoted" ->
           IF c = "\\" THEN (IF next = NUL THEN acc ELSE lit(next, 2))
           ELSE IF c = "~" /\ pos = 0 THEN lit(HOME_DIRECTORY, 1)
           ELSE IF c = "%" /\ pos = 0 THEN lit(PROCESS_EXPAND, 1)
           ELSE IF c = "*"
                THEN IF acc # <<>> /\ acc[Len(acc)] = ANY_STRING
                     THEN unescape_from(in, pos + 1, mode, bracket_count,
                              SubSeq(acc, 1, Len(acc) - 1) \o <<ANY_STRING_RECURSIVE>>)
                     ELSE lit(ANY_STRING, 1)
           ELSE IF c = "?" THEN lit(ANY_CHAR, 1)
           ELSE IF c = "$" THEN lit(VARIABLE_EXPAND, 1)
           ELSE IF c = "{"
                THEN unescape_from(in, pos + 1, mode, bracket_count + 1,
                                   Append(acc, BRACKET_BEGIN))
           ELSE IF c = "}"
                THEN unescape_from(in, pos + 1, mode, bracket_count - 1,
                                   Append(acc, BRACKET_END))
           ELSE IF c = "," /\ bracket_count > 0 THEN lit(BRACKET_SEP, 1)
           ELSE IF c = "'"
                THEN unescape_from(in, pos + 1, "single", bracket_count,
                                   Append(acc, INTERNAL_SEPARATOR))
           ELSE IF c = "\""
                THEN unescape_from(in, pos + 1, "double", bracket_count,
                                   Append(acc, INTERNAL_SEPARATOR))
           ELSE lit(c, 1)
      [] mode = "single" ->
           IF c = "\\" /\ next \in {"'", "\\"} THEN lit(next, 2)
           ELSE IF c = "'"
                THEN unescape_from(in, pos + 1, "unquoted", bracket_count,
                                   Append(acc, INTERNAL_SEPARATOR))
           ELSE lit(c, 1)
      [] mode = "double" ->
           IF c = "\\" /\ next \in {"\"", "\\", "$"} THEN lit(next, 2)
           ELSE IF c = "\""
                THEN unescape_from(in, pos + 1, "unquoted", bracket_count,
                                   Append(acc, INTERNAL_SEPARATOR))
           ELSE IF c = "$" THEN lit(VARIABLE_EXPAND_SINGLE, 1)
           ELSE lit(c, 1)

unescape_string(in) == unescape_from(in, 0, "unquoted", 0, <<>>)

(***************************************************************************)
(* escape_string(in, ESCAPE_ALL) (common.cpp): the empty string becomes    *)
(* two single quotes; a string with a character the shell would interpret  *)
(* is put in single quotes, or, if it holds a quote or a backslash, gets a *)
(* backslash before each such character.                                   *)
(***************************************************************************)
EscapedAnywhere ==
    {"$", "*", "?", "\\", "\"", "'", "(", ")", "{", "}", "[", "]", " ", "&",
     ";", "|", "<", ">", "#", "^"}

EscapedFirst == {"~", "%"}

needs_escape(in) ==
    \E k \in 1..Len(in) :
        in[k] \in EscapedAnywhere \/ (k = 1 /\ in[k] \in EscapedFirst)

escape_string(in) ==
    IF in = <<>> THEN <<"'", "'">>
    ELSE IF ~needs_escape(in) THEN in
    ELSE IF ~ContainsAny(in, {"'", "\\"}) THEN <<"'">> \o in \o <<"'">>
    ELSE Concat([k \in 1..Len(in) |->
                   IF in[k] \in EscapedAnywhere \/ (k = 1 /\ in[k] \in EscapedFirst)
                   THEN <<"\\", in[k]>> ELSE <<in[k]>>])

\* escape_string(in, ESCAPE_NO_QUOTED): quotes are never used.
escape_string_no_quoted(in) ==
    Concat([k \in 1..Len(in) |->
              IF in[k] \in EscapedAnywhere \/ (k = 1 /\ in[k] \in EscapedFirst)
              THEN <<"\\", in[k]>> ELSE <<in[k]>>])

(***************************************************************************)
(* parse_util_locate_cmdsubst (parse_util.cpp): the first parenthesis that *)
(* opens at depth 0 and the parenthesis that closes it, skipping quoted    *)
(* text and characters behind a backslash.  ret is 1 when one is found, 0  *)
(* when there is none and -1 when the parentheses do not balance.          *)
(***************************************************************************)
\* quote_end: the position of the quote closing the one at pos, or -1.
RECURSIVE quote_end_from(_, _, _)
quote_end_from(in, q, pos) ==
    IF pos >= Len(in) THEN -1
    ELSE IF in[pos + 1] = "\\"
         THEN (IF pos + 1 >= Len(in) THEN -1 ELSE quote_end_from(in, q, pos + 2))
    ELSE IF in[pos + 1] = q THEN pos
    ELSE quote_end_from(in, q, pos + 1)

quote_end(in, pos) == quote_end_from(in, in[pos + 1], pos + 1)

locate_finish(in, allow_incomplete, paran_count, paran_begin, paran_end) ==
    IF paran_count < 0 \/ (paran_count > 0 /\ ~allow_incomplete)
    THEN [ret |-> -1, begin |-> -1, end |-> -1]
    ELSE IF paran_begin < 0 THEN [ret |-> 0, begin |-> -1, end |-> -1]
    ELSE [ret |-> 1, begin |-> paran_begin,
          end |-> IF paran_count # 0 THEN Len(in) ELSE paran_end]

RECURSIVE locate_scan(_, _, _, _, _, _)
locate_scan(in, allow_incomplete, pos, prev, paran_count, paran_begin) ==
    LET finish(count, end) == locate_finish(in, allow_incomplete, count, paran_begin, end)
        c == At0(in, pos)
    IN
    IF pos >= Len(in) THEN finish(paran_count, -1)
    ELSE IF prev = "\\"
         THEN locate_scan(in, allow_incomplete, pos + 1, c, paran_count, paran_begin)
    ELSE IF c \in {"'", "\""}
         THEN LET q_end == quote_end(in, pos)
              IN  IF q_end >= 0
                  THEN locate_scan(in, allow_incomplete, q_end + 1, in[q_end + 1],
                                   paran_count, paran_begin)
                  ELSE finish(paran_count, -1)
    ELSE IF c = "("
         THEN locate_scan(in, allow_incomplete, pos + 1, c, paran_count + 1,
                          IF paran_count = 0 /\ paran_begin < 0 THEN pos ELSE paran_begin)
    ELSE IF c = ")"
         THEN IF paran_count - 1 = 0 THEN finish(0, pos)
              ELSE IF paran_count - 1 < 0 THEN finish(paran_count - 1, -1)
              ELSE locate_scan(in, allow_incomplete, pos + 1, c, paran_count - 1,
                               paran_begin)
    ELSE locate_scan(in, allow_incomplete, pos + 1, c, paran_count, paran_begin)

parse_util_locate_cmdsubst(in, allow_incomplete) ==
    locate_scan(in, allow_incomplete, 0, NUL, 0, -1)

(***************************************************************************)
(* exec_subshell and proc_get_last_status (exec.cpp, proc.cpp).  A command *)
(* substitution runs a command outside this file; the oracle `exec` maps   *)
(* each command text to what running it gives: ret (-1 when the evaluation *)
(* failed), the status it leaves in the process table, and its output      *)
(* lines.                                                                  *)
(***************************************************************************)
STATUS_READ_TOO_MUCH == "STATUS_READ_TOO_MUCH"
STATUS_OTHER == "status"

ExecFailed == [ret |-> -1, status |-> STATUS_OTHER, lines |-> <<>>]
ExecTooMuch == [ret |-> 0, status |-> STATUS_READ_TOO_MUCH, lines |-> <<>>]
ExecLines(lines) == [ret |-> 0, status |-> STATUS_OTHER, lines |-> lines]

exec_subshell(exec, subcmd) ==
    IF subcmd \in DOMAIN exec THEN exec[subcmd] ELSE ExecLines(<<>>)

\* The difference of two offsets stored in a size_t: a negative difference
\* wraps around.  The number -n stands for the size_t 2^64 - n.
size_t_difference(a, b) == a - b

(***************************************************************************)
(* expand_cmdsubst                                                         *)
(***************************************************************************)
\* Mutant of cmdsubst_combine: for each tail item, for each line.
cmdsubst_combine_tail_major(head, sub_res, tail_expand) ==
    Concat([b \in 1..Len(tail_expand) |->
              [a \in 1..Len(sub_res) |->
                 Completion(head \o <<INTERNAL_SEPARATOR>> \o escape_string(sub_res[a])
                            \o <<INTERNAL_SEPARATOR>> \o tail_expand[b].completion)]])

\* The product of the substitution's lines with the expansions of the tail:
\* for each line, for each tail item, head SEP escaped-line SEP tail.
cmdsubst_combine(head, sub_res, tail_expand) ==
    Concat([a \in 1..Len(sub_res) |->
              [b \in 1..Len(tail_expand) |->
                 Completion(head \o <<INTERNAL_SEPARATOR>> \o escape_string(sub_res[a])
                            \o <<INTERNAL_SEPARATOR>> \o tail_expand[b].completion)]])

\* The result carries the output list, the error list and the last status of
\* the process table as the call leaves them, and the commands that
\* exec_subshell was given during the call (ran), in order.
cmdsubst_failed(out_list, errs, status) ==
    [ok |-> FALSE, out |-> out_list, errors |-> errs, status |-> status, ran |-> <<>>]

\* exec_subshell was given subcmd before the rest of the call gave r.
cmdsubst_logged(subcmd, r) == [r EXCEPT !.ran = <<subcmd>> \o @]

\* The slice that follows the closing parenthesis, if there is one.
cmdsubst_slice(in, slice_begin, size) ==
    IF At0(in, slice_begin) = "["
    THEN parse_slice(From0(in, slice_begin), size)
    ELSE [bad_pos |-> 0, idx |-> <<>>, source_positions |-> <<>>, end |-> 0]

\* The end of expand_cmdsubst: the lines are combined with what the call on
\* the tail left in tail_expand.  The value that call returned is not looked
\* at; only the last status is.
cmdsubst_joined(in, out_list, loc, sub_res, tail) ==
    [ok |-> tail.status # STATUS_READ_TOO_MUCH,
     out |-> out_list \o cmdsubst_combine(Sub0(in, 0, loc.begin), sub_res, tail.out),
     errors |-> tail.errors,
     status |-> tail.status,
     ran |-> tail.ran]

RECURSIVE expand_cmdsubst(_, _, _, _, _)

\* After the slice has been parsed.
cmdsubst_sliced(in, out_list, errs, exec, loc, run, slice) ==
    IF slice.bad_pos # 0
    THEN cmdsubst_failed(out_list,
             append_syntax_error(errs, loc.end + 1 + slice.bad_pos, "Invalid index value"),
             run.status)
    ELSE cmdsubst_joined(in, out_list, loc,
             IF At0(in, loc.end + 1) = "[" THEN slice_lines(run.lines, slice.idx)
             ELSE run.lines,
             expand_cmdsubst(From0(in, loc.end + 1 + slice.end), <<>>, errs,
                             run.status, exec))

\* After the command has run.
cmdsubst_ran(in, out_list, errs, exec, loc, run) ==
    IF run.ret = -1
    THEN cmdsubst_failed(out_list,
             append_cmdsub_error(errs, SOURCE_LOCATION_UNKNOWN,
                 "Unknown error while evaulating command substitution"),
             run.status)
    ELSE IF run.status = STATUS_READ_TOO_MUCH
    THEN cmdsubst_failed(out_list,
             append_cmdsub_error(errs, size_t_difference(0, loc.begin),
                 "Too much data emitted by command substitution so it was discarded\n"),
             run.status)
    ELSE cmdsubst_sliced(in, out_list, errs, exec, loc, run,
                         cmdsubst_slice(in, loc.end + 1, Len(run.lines)))

\* After the parentheses have been located.
cmdsubst_located(in, out_list, errs, last_status, exec, loc) ==
    IF loc.ret = -1
    THEN cmdsubst_failed(out_list,
             append_syntax_error(errs, SOURCE_LOCATION_UNKNOWN, "Mismatched parenthesis"),
             last_status)
    ELSE IF loc.ret = 0
    THEN [ok |-> TRUE, out |-> Append(out_list, Completion(in)), errors |-> errs,
          status |-> last_status, ran |-> <<>>]
    ELSE cmdsubst_logged(Sub0(in, loc.begin + 1, loc.end - loc.begin - 1),
             cmdsubst_ran(in, out_list, errs, exec, loc,
                 exec_subshell(exec, Sub0(in, loc.begin + 1, loc.end - loc.begin - 1))))

expand_cmdsubst(in, out_list, errs, last_status, exec) ==
    cmdsubst_located(in, out_list, errs, last_status, exec,
                     parse_util_locate_cmdsubst(in, FALSE))

(***************************************************************************)
(* The stages.                                                             *)
(***************************************************************************)
\* The value a stage returns for what the expansion it called returned.
stage_result(r) ==
    [result |-> IF r.ok THEN EXPAND_OK ELSE EXPAND_ERROR, out |-> r.out, errors |-> r.errors]

\* The value the command-substitution stage returns for what
\* expand_cmdsubst returned, with the commands that were run.
cmdsubst_stage_result(r) ==
    [result |-> IF r.ok THEN EXPAND_OK ELSE EXPAND_ERROR, out |-> r.out,
     errors |-> r.errors, ran |-> r.ran]

\* Mutant of expand_stage_cmdsubst: EXPAND_SKIP_CMDSUBST is not looked at.
expand_stage_cmdsubst_unskipped(in, out, flgs, errs, last_status, exec) ==
    cmdsubst_stage_result(expand_cmdsubst(in, out, errs, last_status, exec))

expand_stage_cmdsubst(in, out, flgs, errs, last_status, exec) ==
    IF EXPAND_SKIP_CMDSUBST \in flgs
    THEN IF parse_util_locate_cmdsubst(in, TRUE).ret = 0
         THEN [result |-> EXPAND_OK, out |-> Append(out, Completion(in)), errors |-> errs,
               ran |-> <<>>]
         ELSE [result |-> EXPAND_ERROR, out |-> out,
               errors |-> append_cmdsub_error(errs, SOURCE_LOCATION_UNKNOWN,
                                              "Command substitutions not allowed"),
               ran |-> <<>>]
    ELSE cmdsubst_stage_result(expand_cmdsubst(in, out, errs, last_status, exec))

\* The loop of expand_stage_variables under EXPAND_SKIP_VARIABLES.
skip_variables(next) ==
    [k \in 1..Len(next) |-> IF next[k] = VARIABLE_EXPAND THEN "$" ELSE next[k]]

variables_unescaped(next, out, flgs, errs) ==
    IF EXPAND_SKIP_VARIABLES \in flgs
    THEN [result |-> EXPAND_OK, out |-> Append(out, Completion(skip_variables(next))),
          errors |-> errs]
    ELSE stage_result(expand_variables(next, out, Len(next), errs))

expand_stage_variables(in, out, flgs, errs) ==
    variables_unescaped(unescape_string(in), out, flgs, errs)

(***************************************************************************)
(* expand_brackets                                                         *)
(***************************************************************************)
\* The first loop: one pass over the string that keeps the nesting depth,
\* the position of the last BRACKET_BEGIN met at depth 0, of the last
\* BRACKET_END that returned to depth 0, and of the last BRACKET_SEP at
\* depth 1.  A NULL pointer is -1.
RECURSIVE brackets_scan(_, _, _)
brackets_scan(in, pos, st) ==
    IF pos >= Len(in) \/ st.syntax_error THEN st
    ELSE
    LET c == in[pos + 1] IN
    brackets_scan(in, pos + 1,
      CASE c = BRACKET_BEGIN ->
             [st EXCEPT !.bracket_begin = IF st.bracket_count = 0 THEN pos ELSE @,
                        !.bracket_count = @ + 1]
        [] c = BRACKET_END ->
             [st EXCEPT !.bracket_count = @ - 1,
                        !.syntax_error = st.bracket_count - 1 < 0,
                        !.bracket_end = IF st.bracket_count - 1 = 0 THEN pos ELSE @]
        [] c = BRACKET_SEP ->
             [st EXCEPT !.last_sep = IF st.bracket_count = 1 THEN pos ELSE @]
        [] OTHER -> st)

brackets_scan_start ==
    [syntax_error |-> FALSE, bracket_count |-> 0, bracket_begin |-> -1,
     bracket_end |-> -1, last_sep |-> -1]

\* The string expanded in place of an unfinished one when completing.
brackets_made_up(in, st) ==
    IF st.last_sep >= 0
    THEN Sub0(in, 0, st.bracket_begin + 1) \o From0(in, st.last_sep + 1) \o <<BRACKET_END>>
    ELSE in \o <<BRACKET_END>>

\* A literal "{}": both markers become the plain characters.
brackets_literal(in, st) ==
    [k \in 1..Len(in) |->
       IF k = st.bracket_begin + 1 THEN "{"
       ELSE IF k = st.bracket_end + 1 THEN "}" ELSE in[k]]

\* Mutant of brackets_whole_item: what follows the pair is lost.
brackets_whole_item_no_suffix(in, st, item_begin, pos) ==
    Sub0(in, 0, st.bracket_begin) \o Sub0(in, item_begin, pos - item_begin)

\* The item from item_begin up to pos, between what precedes the pair and
\* what follows it.
brackets_whole_item(in, st, item_begin, pos) ==
    Sub0(in, 0, st.bracket_begin)
      \o Sub0(in, item_begin, pos - item_begin)
      \o From0(in, st.bracket_end + 1)

RECURSIVE expand_brackets(_, _, _, _)
RECURSIVE expand_brackets_items(_, _, _, _, _, _, _, _)

\* The second loop: every item of the pair is put between what precedes and
\* what follows the pair and expanded in turn; the value each of these
\* expansions returns is not looked at.
expand_brackets_items(in, flgs, st, pos, bracket_count, item_begin, out, errs) ==
    LET c == At0(in, pos)
        at_item_end == bracket_count = 0 /\ (c = BRACKET_SEP \/ pos = st.bracket_end)
        whole_item == brackets_whole_item(in, st, item_begin, pos)
        sub == IF at_item_end THEN expand_brackets(whole_item, flgs, out, errs)
               ELSE [result |-> EXPAND_OK, out |-> out, errors |-> errs]
        count2 == bracket_count + (IF c = BRACKET_BEGIN THEN 1 ELSE 0)
                                - (IF c = BRACKET_END THEN 1 ELSE 0)
    IN  IF at_item_end /\ pos = st.bracket_end
        THEN [result |-> EXPAND_OK, out |-> sub.out, errors |-> sub.errors]
        ELSE expand_brackets_items(in, flgs, st, pos + 1, count2,
                                   IF at_item_end THEN pos + 1 ELSE item_begin,
                                   sub.out, sub.errors)

expand_brackets(in, flgs, out, errs) ==
    LET scanned == brackets_scan(in, 0, brackets_scan_start)
        st == IF scanned.bracket_count > 0 /\ EXPAND_FOR_COMPLETIONS \notin flgs
              THEN [scanned EXCEPT !.syntax_error = TRUE] ELSE scanned
    IN
    IF scanned.bracket_count > 0 /\ EXPAND_FOR_COMPLETIONS \in flgs
    THEN expand_brackets(brackets_made_up(in, scanned), {EXPAND_SKIP_CMDSUBST}, out, errs)
    ELSE IF st.bracket_begin >= 0 /\ st.bracket_begin + 1 = st.bracket_end
    THEN expand_brackets(brackets_literal(in, st), flgs, out, errs)
    ELSE IF st.syntax_error
    THEN [result |-> EXPAND_ERROR, out |-> out,
          errors |-> append_syntax_error(errs, SOURCE_LOCATION_UNKNOWN, "Mismatched brackets")]
    ELSE IF st.bracket_begin < 0
    THEN [result |-> EXPAND_OK, out |-> Append(out, Completion(in)), errors |-> errs]
    ELSE expand_brackets_items(in, flgs, st, st.bracket_begin + 1, 0,
                               st.bracket_begin + 1, out, errs)

expand_stage_brackets(in, out, flgs, errs) == expand_brackets(in, flgs, out, errs)

(***************************************************************************)
(* remove_internal_separator                                               *)
(***************************************************************************)
remove_internal_separator(str, conv) ==
    LET kept == Concat([k \in 1..Len(str) |->
                          IF str[k] = INTERNAL_SEPARATOR THEN <<>> ELSE <<str[k]>>])
    IN  IF conv
        THEN [k \in 1..Len(kept) |->
                IF kept[k] = ANY_CHAR THEN "?"
                ELSE IF kept[k] \in {ANY_STRING, ANY_STRING_RECURSIVE} THEN "*"
                ELSE kept[k]]
        ELSE kept

(***************************************************************************)
(* The system outside the shell, as the calls of this file see it.  `sys`  *)
(* is a record: exec (the outcome of each command substitution), passwd    *)
(* (getpwnam_r: user name to home directory), realpath (wrealpath: the     *)
(* canonical form of each path that resolves), jobs (the job list, in      *)
(* iteration order), procs (the processes of the user, as the process      *)
(* iterator yields them), self_pid (getpid) and last_bg_pid.               *)
(***************************************************************************)
None == [present |-> FALSE, val |-> <<>>]
Some(v) == [present |-> TRUE, val |-> v]

getpwnam_r(sys, name) ==
    IF name \in DOMAIN sys.passwd THEN Some(sys.passwd[name]) ELSE None

wrealpath(sys, path) ==
    IF path \in DOMAIN sys.realpath THEN Some(sys.realpath[path]) ELSE None

\* The text of a string of characters, as one string.
RECURSIVE Str(_)
Str(s) == IF s = <<>> THEN "" ELSE s[1] \o Str(Tail(s))

(***************************************************************************)
(* get_home_directory_name, expand_home_directory, expand_tilde            *)
(***************************************************************************)
get_home_directory_name(in) ==
    LET tail_idx == FindFrom(in, "/", 0)
    IN  [name |-> Sub0(in, 1, tail_idx - 1), tail_idx |-> tail_idx]

\* Mutant of expand_home_directory: without HOME only the marker is dropped.
expand_home_directory_keeps_tail(in, sys) ==
    IF in # <<>> /\ in[1] = HOME_DIRECTORY
    THEN LET h == get_home_directory_name(in)
             var == env_get(<<"H", "O", "M", "E">>)
             home == IF h.name = <<>>
                     THEN IF missing_or_empty(var) THEN None
                          ELSE Some(join_with_spaces(var.vals))
                     ELSE getpwnam_r(sys, h.name)
             tail_idx == IF h.name = <<>> THEN 1 ELSE h.tail_idx
             realhome == IF home.present THEN wrealpath(sys, home.val) ELSE None
         IN  IF h.name = <<>> /\ missing_or_empty(var) THEN From0(in, 1)
             ELSE IF realhome.present THEN realhome.val \o From0(in, tail_idx)
             ELSE <<"~">> \o Tail(in)
    ELSE in

expand_home_directory(in, sys) ==
    IF in # <<>> /\ in[1] = HOME_DIRECTORY
    THEN LET h == get_home_directory_name(in)
             var == env_get(<<"H", "O", "M", "E">>)
             home == IF h.name = <<>>
                     THEN IF missing_or_empty(var) THEN None
                          ELSE Some(join_with_spaces(var.vals))
                     ELSE getpwnam_r(sys, h.name)
             tail_idx == IF h.name = <<>> THEN 1 ELSE h.tail_idx
             realhome == IF home.present THEN wrealpath(sys, home.val) ELSE None
         IN  IF h.name = <<>> /\ missing_or_empty(var) THEN <<>>
             ELSE IF realhome.present THEN realhome.val \o From0(in, tail_idx)
             ELSE <<"~">> \o Tail(in)
    ELSE in

expand_tilde(in, sys) ==
    IF in # <<>> /\ in[1] = "~"
    THEN expand_home_directory(<<HOME_DIRECTORY>> \o Tail(in), sys)
    ELSE in

(***************************************************************************)
(* Process expansion: match_pid, find_job, find_process, expand_pid.       *)
(* The description of a completion is not kept.                            *)
(***************************************************************************)
SELF_STR == <<"s", "e", "l", "f">>
LAST_STR == <<"l", "a", "s", "t">>
FAILED_EXPANSION_PROCESS_ERR_MSG == "Unknown command "

iswnumeric(n) == \A k \in 1..Len(n) : n[k] \in Digits

\* wbasename (wutil.cpp): the last component of a path.
RECURSIVE wbasename(_)
wbasename(path) ==
    IF path = <<>> THEN <<".">>
    ELSE IF path[Len(path)] = "/"
         THEN (IF Len(path) = 1 THEN path ELSE wbasename(SubSeq(path, 1, Len(path) - 1)))
    ELSE LET slashes == {k \in 1..Len(path) : path[k] = "/"}
         IN  IF slashes = {} THEN path
             ELSE From0(path, CHOOSE k \in slashes : \A m \in slashes : m <= k)

match_pid(cmd, proc) ==
    IF proc # <<>> /\ string_prefixes_string(proc, cmd)
    THEN [match |-> TRUE, offset |-> 0]
    ELSE LET base_cmd == wbasename(cmd)
         IN  [match |-> string_prefixes_string(proc, base_cmd),
              offset |-> Len(cmd) - Len(base_cmd)]

command_is_empty(j) == j.command = <<>>

\* The completions a loop over a list appends: item(k) for each k with keep(k).
Collected(n, keep(_), item(_)) ==
    Concat([k \in 1..n |-> IF keep(k) THEN <<Completion(item(k))>> ELSE <<>>])

find_job(proc, flgs, completions, jobs) ==
    LET completing == EXPAND_FOR_COMPLETIONS \in flgs
        live == {k \in 1..Len(jobs) : ~command_is_empty(jobs[k])}
        first_live == CHOOSE k \in live : \A m \in live : k <= m
        jid_text(k) == to_string(jobs[k].job_id)
        jid == fish_wcstol(proc, 0).val
        with_id == {k \in live : jobs[k].job_id = jid}
        by_command == Collected(Len(jobs),
                        LAMBDA k : k \in live /\ match_pid(jobs[k].command, proc).match,
                        LAMBDA k : IF completing
                                   THEN From0(jobs[k].command,
                                              match_pid(jobs[k].command, proc).offset + Len(proc))
                                   ELSE to_string(jobs[k].pgid))
        by_process(k) ==
            LET ps == jobs[k].processes
            IN  Collected(Len(ps),
                  LAMBDA n : ps[n].actual_cmd # <<>> /\ match_pid(ps[n].actual_cmd, proc).match,
                  LAMBDA n : IF completing
                             THEN From0(ps[n].actual_cmd,
                                        match_pid(ps[n].actual_cmd, proc).offset + Len(proc))
                             ELSE to_string(ps[n].pid))
        by_processes == Concat([k \in 1..Len(jobs) |->
                                  IF k \in live THEN by_process(k) ELSE <<>>])
    IN
    IF proc = <<>> /\ ~completing
    THEN [found |-> TRUE,
          out |-> IF live = {} THEN completions
                  ELSE Append(completions, Completion(to_string(jobs[first_live].pgid)))]
    ELSE IF iswnumeric(proc)
    THEN [found |-> TRUE,
          out |-> IF completing
                  THEN completions \o
                       Collected(Len(jobs),
                         LAMBDA k : k \in live /\ string_prefixes_string(proc, jid_text(k)),
                         LAMBDA k : From0(jid_text(k), Len(proc)))
                  ELSE IF jid > 0 /\ with_id # {}
                       THEN Append(completions,
                                   Completion(to_string(jobs[CHOOSE k \in with_id : TRUE].pgid)))
                       ELSE completions]
    ELSE IF by_command # <<>> /\ ~completing
    THEN [found |-> TRUE, out |-> completions \o by_command]
    ELSE [found |-> by_processes # <<>> /\ ~completing,
          out |-> completions \o by_command \o by_processes]

\* The loop of find_process over the processes of the system.
find_process_iterate(proc, flgs, out, procs) ==
    out \o
    Collected(Len(procs),
      LAMBDA k : match_pid(procs[k].name, proc).match,
      LAMBDA k : IF EXPAND_FOR_COMPLETIONS \in flgs
                 THEN From0(procs[k].name,
                            match_pid(procs[k].name, proc).offset + Len(proc))
                 ELSE to_string(procs[k].pid))

find_process(proc, flgs, out, sys) ==
    LET job == IF EXPAND_SKIP_JOBS \notin flgs
               THEN find_job(proc, flgs, out, sys.jobs)
               ELSE [found |-> FALSE, out |-> out]
    IN  IF job.found THEN job.out
        ELSE find_process_iterate(proc, flgs, job.out, sys.procs)

\* The completions of the names self and last (completion mode only).
pid_named(proc, flgs, out) ==
    IF EXPAND_FOR_COMPLETIONS \notin flgs THEN out
    ELSE IF string_prefixes_string(proc, SELF_STR)
    THEN Append(out, Completion(From0(SELF_STR, Len(proc))))
    ELSE IF string_prefixes_string(proc, LAST_STR)
    THEN Append(out, Completion(From0(LAST_STR, Len(proc))))
    ELSE out

\* After find_process: prev_count is the size of the list before it.
pid_found(proc, flgs, prev_count, found, errs) ==
    IF Len(found) = prev_count /\ EXPAND_FOR_COMPLETIONS \notin flgs
    THEN [ok |-> FALSE, out |-> found,
          errors |-> append_syntax_error(errs, 1,
                         FAILED_EXPANSION_PROCESS_ERR_MSG \o Str(escape_string_no_quoted(proc)))]
    ELSE [ok |-> TRUE, out |-> found, errors |-> errs]

pid_search(proc, flgs, named, errs, sys) ==
    pid_found(proc, flgs, Len(named), find_process(proc, flgs, named, sys), errs)

\* instr is the string without its internal separators.
pid_expand(instr, flgs, out, errs, sys) ==
    IF instr = <<>> \/ instr[1] # PROCESS_EXPAND
    THEN [ok |-> TRUE, out |-> Append(out, Completion(instr)), errors |-> errs]
    ELSE IF EXPAND_FOR_COMPLETIONS \notin flgs /\ Tail(instr) = SELF_STR
    THEN [ok |-> TRUE, out |-> Append(out, Completion(to_string(sys.self_pid))),
          errors |-> errs]
    ELSE IF EXPAND_FOR_COMPLETIONS \notin flgs /\ Tail(instr) = LAST_STR
    THEN [ok |-> TRUE,
          out |-> IF sys.last_bg_pid > 0
                  THEN Append(out, Completion(to_string(sys.last_bg_pid))) ELSE out,
          errors |-> errs]
    ELSE pid_search(Tail(instr), flgs, pid_named(Tail(instr), flgs, out), errs, sys)

expand_pid(instr_with_sep, flgs, out, errs, sys) ==
    IF ~ContainsAny(instr_with_sep, {INTERNAL_SEPARATOR, PROCESS_EXPAND})
    THEN [ok |-> TRUE, out |-> Append(out, Completion(instr_with_sep)), errors |-> errs]
    ELSE pid_expand(remove_internal_separator(instr_with_sep, FALSE), flgs, out, errs, sys)

\* The second half of expand_stage_home_and_pid; next is the string after
\* the home directory expansion.
home_and_pid_next(next, out, flgs, errs, sys) ==
    IF EXPAND_FOR_COMPLETIONS \in flgs
    THEN IF next # <<>> /\ next[1] = PROCESS_EXPAND
         THEN [result |-> EXPAND_OK, out |-> expand_pid(next, flgs, out, errs, sys).out,
               errors |-> errs]
         ELSE [result |-> EXPAND_OK, out |-> Append(out, Completion(next)),
               errors |-> errs]
    ELSE stage_result(expand_pid(next, flgs, out, errs, sys))

expand_stage_home_and_pid(in, out, flgs, errs, sys) ==
    home_and_pid_next(IF EXPAND_SKIP_HOME_DIRECTORIES \notin flgs
                      THEN expand_home_directory(in, sys) ELSE in,
                      out, flgs, errs, sys)

(***************************************************************************)
(* The wildcard stage.  wildcard_expand_string is the matcher of           *)
(* wildcard.cpp: sys.matcher maps a pattern and a working directory to the *)
(* count the matcher returns (negative when cancelled) and the completions *)
(* it appends; a pattern it does not know matches nothing.                 *)
(***************************************************************************)
wildcard_has(str) ==
    ContainsAny(str, {ANY_CHAR, ANY_STRING, ANY_STRING_RECURSIVE})

wildcard_expand_string(sys, wc, working_directory) ==
    IF <<wc, working_directory>> \in DOMAIN sys.matcher
    THEN sys.matcher[<<wc, working_directory>>]
    ELSE [res |-> 0, found |-> <<>>]

\* path_apply_working_directory (path.cpp).
path_apply_working_directory(path, working_directory) ==
    IF path = <<>> \/ working_directory = <<>> THEN path
    ELSE IF path[1] \in {"/", HOME_DIRECTORY} THEN path
    ELSE LET component == IF string_prefixes_string(<<".", "/">>, path)
                          THEN From0(path, 2) ELSE path
         IN  working_directory
             \o (IF working_directory[Len(working_directory)] = "/" THEN <<>> ELSE <<"/">>)
             \o component

\* completion_t::is_naturally_less_than, on the characters of CharOrder.
CharOrder == <<".", "/", "a", "b", "c", "d", "x", "y">>

CharRank(c) ==
    IF \E k \in 1..Len(CharOrder) : CharOrder[k] = c
    THEN CHOOSE k \in 1..Len(CharOrder) : CharOrder[k] = c
    ELSE 0

RECURSIVE string_less_than(_, _)
string_less_than(a, b) ==
    IF b = <<>> THEN FALSE
    ELSE IF a = <<>> THEN TRUE
    ELSE IF a[1] = b[1] THEN string_less_than(Tail(a), Tail(b))
    ELSE CharRank(a[1]) < CharRank(b[1])

is_naturally_less_than(a, b) == string_less_than(a.completion, b.completion)

\* std::sort by is_naturally_less_than (insertion keeps equal items in order).
RECURSIVE sort_insert(_, _)
sort_insert(sorted, c) ==
    IF sorted = <<>> THEN <<c>>
    ELSE IF is_naturally_less_than(c, sorted[1]) THEN <<c>> \o sorted
    ELSE <<sorted[1]>> \o sort_insert(Tail(sorted), c)

RECURSIVE sort_completions(_)
sort_completions(cs) ==
    IF cs = <<>> THEN <<>>
    ELSE sort_insert(sort_completions(SubSeq(cs, 1, Len(cs) - 1)), cs[Len(cs)])

effective_working_dirs(path_to_expand, flgs, sys) ==
    LET working_dir == sys.pwd
        for_cd == EXPAND_SPECIAL_FOR_CD \in flgs
        for_command == EXPAND_SPECIAL_FOR_COMMAND \in flgs
        name == IF for_cd THEN <<"C", "D", "P", "A", "T", "H">> ELSE <<"P", "A", "T", "H">>
        var == env_get(name)
        paths == IF missing_or_empty(var)
                 THEN << (IF for_cd THEN <<".">> ELSE <<>>) >>
                 ELSE var.vals
    IN  IF ~for_cd /\ ~for_command THEN <<working_dir>>
        ELSE IF \/ string_prefixes_string(<<"/">>, path_to_expand)
                \/ string_prefixes_string(<<".", "/">>, path_to_expand)
                \/ string_prefixes_string(<<".", ".", "/">>, path_to_expand)
                \/ (for_command /\ Contains(path_to_expand, "/"))
        THEN <<working_dir>>
        ELSE [k \in 1..Len(paths) |-> path_apply_working_directory(paths[k], working_dir)]

\* Mutant of wildcard_dirs: a cancellation does not end the loop, and a
\* later match overwrites it.
RECURSIVE wildcard_dirs_no_break(_, _, _, _, _, _)
wildcard_dirs_no_break(sys, path_to_expand, dirs, wd_idx, result, expanded) ==
    IF wd_idx > Len(dirs) THEN [result |-> result, expanded |-> expanded, tried |-> dirs]
    ELSE LET local == wildcard_expand_string(sys, path_to_expand, dirs[wd_idx])
         IN  wildcard_dirs_no_break(sys, path_to_expand, dirs, wd_idx + 1,
                 IF local.res > 0 THEN EXPAND_WILDCARD_MATCH
                 ELSE IF local.res < 0 THEN EXPAND_ERROR ELSE result,
                 expanded \o local.found)

\* The loop over the working directories: the result so far and the
\* completions collected, from directory wd_idx on.  The result names the
\* directories the matcher was called with (tried).
RECURSIVE wildcard_dirs(_, _, _, _, _, _)
wildcard_dirs(sys, path_to_expand, dirs, wd_idx, result, expanded) ==
    IF wd_idx > Len(dirs) THEN [result |-> result, expanded |-> expanded, tried |-> dirs]
    ELSE LET local == wildcard_expand_string(sys, path_to_expand, dirs[wd_idx])
         IN  IF local.res < 0
             THEN [result |-> EXPAND_ERROR, expanded |-> expanded \o local.found,
                   tried |-> SubSeq(dirs, 1, wd_idx)]
             ELSE wildcard_dirs(sys, path_to_expand, dirs, wd_idx + 1,
                                IF local.res > 0 THEN EXPAND_WILDCARD_MATCH ELSE result,
                                expanded \o local.found)

\* After the loop: the completions found are sorted and appended.
wildcards_matched(out, errs, r) ==
    [result |-> r.result, out |-> out \o sort_completions(r.expanded), errors |-> errs,
     tried |-> r.tried]

expand_stage_wildcards(in, out, flgs, errs, sys) ==
    LET path_to_expand == remove_internal_separator(in, EXPAND_SKIP_WILDCARDS \in flgs)
        has_wildcard == wildcard_has(path_to_expand)
        completing == EXPAND_FOR_COMPLETIONS \in flgs
    IN  IF has_wildcard /\ EXECUTABLES_ONLY \in flgs
        THEN [result |-> EXPAND_OK, out |-> out, errors |-> errs]
        ELSE IF (completing /\ EXPAND_SKIP_WILDCARDS \notin flgs) \/ has_wildcard
        THEN wildcards_matched(out, errs,
                 wildcard_dirs(sys, path_to_expand,
                               effective_working_dirs(path_to_expand, flgs, sys),
                               1, EXPAND_WILDCARD_NO_MATCH, <<>>))
        ELSE [result |-> EXPAND_OK,
              out |-> IF completing THEN out ELSE Append(out, Completion(path_to_expand)),
              errors |-> errs]

(***************************************************************************)
(* unexpand_tildes                                                         *)
(***************************************************************************)
\* Mutant of unexpand_tildes: every completion that begins with the home
\* directory gets its tilde back, replacement or not.
unexpand_tildes_any_completion(in, cs, sys) ==
    IF in = <<>> \/ in[1] # "~" THEN cs
    ELSE IF ~\E k \in 1..Len(cs) : COMPLETE_REPLACES_TOKEN \in cs[k].flags THEN cs
    ELSE LET username_with_tilde == <<"~">> \o get_home_directory_name(in).name
             home == expand_tilde(username_with_tilde, sys)
         IN  [k \in 1..Len(cs) |->
                IF string_prefixes_string(home, cs[k].completion)
                THEN [completion |-> username_with_tilde \o From0(cs[k].completion, Len(home)),
                      flags |-> cs[k].flags \cup {COMPLETE_DONT_ESCAPE_TILDES}]
                ELSE cs[k]]

unexpand_tildes(in, cs, sys) ==
    IF in = <<>> \/ in[1] # "~" THEN cs
    ELSE IF ~\E k \in 1..Len(cs) : COMPLETE_REPLACES_TOKEN \in cs[k].flags THEN cs
    ELSE LET username_with_tilde == <<"~">> \o get_home_directory_name(in).name
             home == expand_tilde(username_with_tilde, sys)
         IN  [k \in 1..Len(cs) |->
                IF /\ COMPLETE_REPLACES_TOKEN \in cs[k].flags
                   /\ string_prefixes_string(home, cs[k].completion)
                THEN [completion |-> username_with_tilde \o From0(cs[k].completion, Len(home)),
                      flags |-> cs[k].flags \cup {COMPLETE_DONT_ESCAPE_TILDES}]
                ELSE cs[k]]

(***************************************************************************)
(* replace_home_directory_with_tilde                                       *)
(***************************************************************************)
\* The home directory a path is compared with: what expand_tilde makes of
\* "~", with a final slash.
home_directory_slash(sys) ==
    LET home_directory == expand_tilde(<<"~">>, sys)
    IN  IF string_suffixes_string(<<"/">>, home_directory) THEN home_directory
        ELSE Append(home_directory, "/")

replace_home_directory_with_tilde(str, sys) ==
    IF string_prefixes_string(<<"/">>, str)
       /\ string_prefixes_string(home_directory_slash(sys), str)
    THEN <<"~", "/">> \o From0(str, Len(home_directory_slash(sys)))
    ELSE str

(***************************************************************************)
(* expand_string: how the result of one stage invocation changes the       *)
(* result of the whole call.                                               *)
(***************************************************************************)
\* Mutant of update_total_result: the last invocation always wins.
update_total_result_last_wins(this_result, total) == this_result

update_total_result(this_result, total) ==
    IF ~(this_result = EXPAND_WILDCARD_NO_MATCH /\ total = EXPAND_WILDCARD_MATCH)
    THEN this_result ELSE total

\* The conditions of the two loops of expand_string.
\* Mutant of stage_loop_continues: the loop over the completions goes on
\* after an error.
stage_loop_continues_after_error(total, idx, n) == idx < n

stage_loop_continues(total, idx, n) == total # EXPAND_ERROR /\ idx < n

NumStages == 5

pipeline_continues(total, stage) == total # EXPAND_ERROR /\ stage < NumStages

\* expand_one: the test on what expand_string returned and produced
\* (EXPAND_ERROR is the zero of expand_error_t).
\* Mutant of expand_one_succeeds: more than one result is accepted.
expand_one_succeeds_some(result, n) == result # EXPAND_ERROR /\ n >= 1

expand_one_succeeds(result, n) == result # EXPAND_ERROR /\ n = 1

\* No system: the value of sys while no call is modelled.
NoSystem ==
    [exec |-> <<>>, passwd |-> <<>>, realpath |-> <<>>, jobs |-> <<>>, procs |-> <<>>,
     self_pid |-> 0, last_bg_pid |-> 0, matcher |-> <<>>, pwd |-> <<>>]

(***************************************************************************)
(* State.                                                                  *)
(*                                                                         *)
(* A call of expand_string or expand_one:                                  *)
(*   pc             "idle", "stages" (in the loop over the stages),        *)
(*                  "finish" (after the loop) or "done" (returned)         *)
(*   op             the function called                                    *)
(*   input, flags   its arguments                                          *)
(*   out_completions, errors   the caller's output list and error list     *)
(*   out_before     the caller's output list as it was at the call         *)
(*   completions, output_storage, stage_idx, i, total_result   its locals  *)
(*   ret            what the call returned                                 *)
(*   in_out         the string argument of expand_one after the call       *)
(*   calls          the stage invocations made by the call, in order, each *)
(*                  with the commands exec_subshell was given during it    *)
(*                  (ran) and the directories the matcher was given (tried)*)
(*   sys            the system outside the shell during the call           *)
(*                                                                         *)
(* sl_* and v_* hold an application of parse_slice and of                  *)
(* expand_variables to one input (SpecSlice, SpecVariables).               *)
(***************************************************************************)
VARIABLES pc, op, input, flags, out_completions, out_before, errors,
          completions, output_storage, stage_idx, i, total_result,
          ret, in_out, calls, sys,
          sl_pc, sl_tok, sl_in, sl_list, sl_res, sl_sel,
          v_pc, v_shape, v_in, v_res,
          p_pc, p_proc, p_flags, p_out, p_found, p_jobs, p_queue, p_done,
          p_reads, p_changes,
          t_pc, t_op, t_in, t_out

dvars == <<pc, op, input, flags, out_completions, out_before, errors,
           completions, output_storage, stage_idx, i, total_result,
           ret, in_out, calls, sys>>

slvars == <<sl_pc, sl_tok, sl_in, sl_list, sl_res, sl_sel>>

vvars == <<v_pc, v_shape, v_in, v_res>>

pvars == <<p_pc, p_proc, p_flags, p_out, p_found, p_jobs, p_queue, p_done,
           p_reads, p_changes>>

tvars == <<t_pc, t_op, t_in, t_out>>

vars == <<extvars, dvars, slvars, vvars, pvars, tvars>>

(***************************************************************************)
(* SpecSlice: parse_slice and the two selections applied to every slice    *)
(* of one token, an index i or a range a..b with endpoints of magnitude    *)
(* at most MaxIdx, against every list of at most MaxSize elements.         *)
(***************************************************************************)
MaxIdx == 10
MaxSize == 3

\* The k-th element of a list is the one-character string of the digit k.
SliceList(size) == [k \in 1..size |-> <<DigitChar(k)>>]

SliceTokens ==
    [kind : {"index"}, a : (0 - MaxIdx)..MaxIdx, b : {0}]
      \cup [kind : {"range"}, a : (0 - MaxIdx)..MaxIdx, b : (0 - MaxIdx)..MaxIdx]
      \cup [kind : {"bad"}, a : {0}, b : {0}]

\* The text of a slice: plain, or with blanks and separators between its
\* parts, or with a token that is no number.
SliceText(tok, spaced) ==
    LET gap == IF spaced THEN <<" ", INTERNAL_SEPARATOR>> ELSE <<>>
        sep == IF spaced THEN <<INTERNAL_SEPARATOR>> ELSE <<>>
    IN  CASE tok.kind = "index" -> <<"[">> \o gap \o to_string(tok.a) \o gap \o <<"]">>
          [] tok.kind = "range" -> <<"[">> \o gap \o to_string(tok.a) \o sep
                                   \o <<".", ".">> \o sep \o to_string(tok.b)
                                   \o gap \o <<"]">>
          [] tok.kind = "bad" -> <<"[">> \o gap \o <<"x">> \o <<"]">>

NoSlice == [bad_pos |-> 0, idx |-> <<>>, source_positions |-> <<>>, end |-> 0]

\* The values of the variables a specification does not use.
NoCall == [kind |-> "none", arg |-> <<>>, ok |-> FALSE, output |-> <<>>, before |-> <<>>]

AbbrOff == abbreviations = <<>> /\ a_pc = "off" /\ a_last = <<>> /\ a_call = NoCall

ExtOff == env = <<>> /\ history = <<>> /\ is_main_thread = TRUE /\ AbbrOff

DriverOff ==
    /\ pc = "off" /\ op = "none" /\ input = <<>> /\ flags = {}
    /\ out_completions = <<>> /\ out_before = <<>> /\ errors = <<>>
    /\ completions = <<>> /\ output_storage = <<>>
    /\ stage_idx = 0 /\ i = 0 /\ total_result = EXPAND_OK
    /\ ret = "none" /\ in_out = <<>> /\ calls = <<>> /\ sys = NoSystem

SliceOff ==
    /\ sl_pc = "off" /\ sl_tok = [kind |-> "none", a |-> 0, b |-> 0]
    /\ sl_in = <<>> /\ sl_list = <<>> /\ sl_res = NoSlice /\ sl_sel = <<>>

NoRef == [marker |-> NUL, name |-> <<>>, slice |-> <<>>]

VariablesOff ==
    /\ v_pc = "off" /\ v_in = <<>>
    /\ v_shape = [pre |-> <<>>, r1 |-> NoRef, mid |-> <<>>, r2 |-> NoRef, suf |-> <<>>]
    /\ v_res = [ok |-> TRUE, out |-> <<>>, errors |-> <<>>]

ProcessOff ==
    /\ p_pc = "off" /\ p_proc = <<>> /\ p_flags = {} /\ p_out = <<>>
    /\ p_found = FALSE /\ p_jobs = <<>> /\ p_queue = <<>> /\ p_done = FALSE
    /\ p_reads = <<>> /\ p_changes = 0

TildeOff == t_pc = "off" /\ t_op = "none" /\ t_in = <<>> /\ t_out = <<>>

SliceInit ==
    /\ ExtOff /\ DriverOff /\ VariablesOff /\ ProcessOff /\ TildeOff
    /\ sl_pc = "start"
    /\ sl_tok \in SliceTokens
    /\ \E spaced \in BOOLEAN : sl_in = SliceText(sl_tok, spaced)
    /\ \E size \in 0..MaxSize : sl_list = SliceList(size)
    /\ sl_res = NoSlice
    /\ sl_sel = <<>>

\* parse_slice on the text, against the size of the list.
SliceParse ==
    /\ sl_pc = "start"
    /\ sl_res' = parse_slice(sl_in, Len(sl_list))
    /\ sl_pc' = IF sl_res'.bad_pos = 0 THEN "parsed" ELSE "failed"
    /\ UNCHANGED <<sl_tok, sl_in, sl_list, sl_sel, extvars, dvars, vvars, pvars, tvars>>

\* The selection expand_variables makes from a present variable.
SliceSelectVariable ==
    /\ sl_pc = "parsed"
    /\ sl_sel' = select_items(sl_list, sl_res.idx)
    /\ sl_pc' = "selected_variable"
    /\ UNCHANGED <<sl_tok, sl_in, sl_list, sl_res, extvars, dvars, vvars, pvars, tvars>>

\* The selection expand_cmdsubst makes from the lines of a substitution.
SliceSelectCmdsubst ==
    /\ sl_pc = "parsed"
    /\ sl_sel' = slice_lines(sl_list, sl_res.idx)
    /\ sl_pc' = "selected_cmdsubst"
    /\ UNCHANGED <<sl_tok, sl_in, sl_list, sl_res, extvars, dvars, vvars, pvars, tvars>>

SliceNext == SliceParse \/ SliceSelectVariable \/ SliceSelectCmdsubst

SpecSlice == SliceInit /\ [][SliceNext]_vars

(***************************************************************************)
(* SpecVariables: expand_variables applied to every string of the shape    *)
(*     pre r1 mid r2 suf                                                   *)
(* where r1 and r2 are variable references (r1 possibly absent), under     *)
(* every environment in which the variables a and b hold at most MaxVals   *)
(* values.  The variable m is always missing.                              *)
(***************************************************************************)
MaxVals == 2

NameA == <<"a">>
NameB == <<"b">>
NameM == <<"m">>

\* The value lists of a: every list of at most MaxVals values out of
\* "x", "y" and the empty string.
ListsA == UNION {[1..k -> {<<"x">>, <<"y">>, <<>>}] : k \in 0..MaxVals}

\* The value lists of b: "1", "2", ... up to MaxVals values.
ListsB == {[k \in 1..q |-> <<DigitChar(k)>>] : q \in 0..MaxVals}

HistoryItems == << <<"k">>, <<"l">> >>

RefText(r) == IF r.marker = NUL THEN <<>> ELSE <<r.marker>> \o r.name \o r.slice

ShapeText(sh) == sh.pre \o RefText(sh.r1) \o sh.mid \o RefText(sh.r2) \o sh.suf

Markers == {VARIABLE_EXPAND, VARIABLE_EXPAND_SINGLE}

\* Strings with one reference.
ShapesOne ==
    [pre : {<<>>, <<"p">>},
     r1 : {NoRef},
     mid : {<<>>},
     r2 : [marker : Markers,
           name : {NameA, NameB, NameM, HistoryName, <<>>},
           slice : {<<>>, <<"[", "2", "]">>, <<"[", "-", "1", "]">>,
                    <<"[", "2", ".", ".", "1", "]">>, <<"[", "x", "]">>}],
     suf : {<<>>, <<"/", "s">>}]

\* Strings with two references, adjacent or with text between them.
ShapesTwo ==
    [pre : {<<>>, <<"p">>},
     r1 : [marker : Markers, name : {NameA, NameM, <<>>}, slice : {<<>>}],
     mid : {<<>>, <<"/">>},
     r2 : [marker : Markers,
           name : {NameA, NameB, NameM, <<>>},
           slice : {<<>>, <<"[", "1", "]">>}],
     suf : {<<>>, <<"/", "s">>}]

VariablesInit ==
    /\ DriverOff /\ SliceOff /\ ProcessOff /\ TildeOff /\ AbbrOff
    /\ v_pc = "start"
    /\ v_shape \in ShapesOne \cup ShapesTwo
    /\ v_in = ShapeText(v_shape)
    /\ v_res = [ok |-> TRUE, out |-> <<>>, errors |-> <<>>]
    /\ \E la \in ListsA, lb \in ListsB : env = (NameA :> la) @@ (NameB :> lb)
    /\ history = HistoryItems
    /\ is_main_thread \in (IF HistoryName \in {v_shape.r1.name, v_shape.r2.name}
                           THEN BOOLEAN ELSE {TRUE})

\* expand_variables(instr, out, instr.size(), errors), as the variable stage
\* calls it.
VariablesExpand ==
    /\ v_pc = "start"
    /\ v_res' = expand_variables(v_in, <<>>, Len(v_in), <<>>)
    /\ v_pc' = IF v_res'.ok THEN "done" ELSE "failed"
    /\ UNCHANGED <<v_shape, v_in, extvars, dvars, slvars, pvars, tvars>>

VariablesNext == VariablesExpand

SpecVariables == VariablesInit /\ [][VariablesNext]_vars

(***************************************************************************)
(* Spec: calls of expand_string and of expand_one, one stage invocation    *)
(* at a time, on the arguments of Inputs under the flag sets of FlagSets,  *)
(* in every system of Systems: a command substitution fails, emits too     *)
(* much or prints up to MaxLines lines, and the matcher is cancelled,      *)
(* finds nothing or finds files.                                           *)
(***************************************************************************)
MaxLines == 2

\* The environment of the calls.
HomeName == <<"H", "O", "M", "E">>

DriverEnv ==
    (<<"a">> :> << <<"x">>, <<"y">> >>)
    @@ (<<"b">> :> << <<"1">>, <<"2">> >>)
    @@ (<<"e">> :> <<>>)
    @@ (<<"H", "O", "M", "E">> :> << <<"/", "l">> >>)
    @@ (<<"C", "D", "P", "A", "T", "H">> :> << <<"/", "p">>, <<".">>, <<"/", "q">> >>)

\* The environment without HOME.
DriverEnvNoHome == [n \in DOMAIN DriverEnv \ {HomeName} |-> DriverEnv[n]]

\* Arguments with one outermost brace pair.  A leaf is a text; a pair is
\* pre{alt,...,alt}suf, every alternative a leaf or a pair in turn.
Leaf(text) == [pre |-> text, alts |-> <<>>, suf |-> <<>>]

Pair(pre, alts, suf) == [pre |-> pre, alts |-> alts, suf |-> suf]

BraceShapes ==
    { \* {a,{b,c},d}
      Pair(<<>>, <<Leaf(<<"a">>),
                   Pair(<<>>, <<Leaf(<<"b">>), Leaf(<<"c">>)>>, <<>>),
                   Leaf(<<"d">>)>>, <<>>),
      \* p{a,b{1,2}}o
      Pair(<<"p">>, <<Leaf(<<"a">>),
                      Pair(<<"b">>, <<Leaf(<<"1">>), Leaf(<<"2">>)>>, <<>>)>>, <<"o">>),
      \* {a,,b}o
      Pair(<<>>, <<Leaf(<<"a">>), Leaf(<<>>), Leaf(<<"b">>)>>, <<"o">>),
      \* p{{a{1,2}b,c}d}
      Pair(<<"p">>, <<Pair(<<>>, <<Pair(<<"a">>, <<Leaf(<<"1">>), Leaf(<<"2">>)>>, <<"b">>),
                                   Leaf(<<"c">>)>>, <<"d">>)>>, <<>>),
      \* p{a}
      Pair(<<"p">>, <<Leaf(<<"a">>)>>, <<>>),
      \* {{a,b},{c,d}}
      Pair(<<>>, <<Pair(<<>>, <<Leaf(<<"a">>), Leaf(<<"b">>)>>, <<>>),
                   Pair(<<>>, <<Leaf(<<"c">>), Leaf(<<"d">>)>>, <<>>)>>, <<>>) }

\* The argument as it is typed.
RECURSIVE BraceText(_)
RECURSIVE BraceAltsText(_, _)
BraceAltsText(alts, k) ==
    IF k > Len(alts) THEN <<>>
    ELSE (IF k > 1 THEN <<",">> ELSE <<>>) \o BraceText(alts[k]) \o BraceAltsText(alts, k + 1)

BraceText(sh) ==
    IF sh.alts = <<>> THEN sh.pre
    ELSE sh.pre \o <<"{">> \o BraceAltsText(sh.alts, 1) \o <<"}">> \o sh.suf

BraceInputs == {BraceText(sh) : sh \in BraceShapes}

\* Arguments with command substitutions: head (cmd)slice after ... , every
\* substitution followed by an optional slice and a text.
CmdShapes ==
    { [head |-> <<>>, subs |-> << [cmd |-> <<"c">>, slice |-> <<>>, after |-> <<>>] >>],
      [head |-> <<>>, subs |-> << [cmd |-> <<"c">>, slice |-> <<>>, after |-> <<>>],
                                  [cmd |-> <<"d">>, slice |-> <<>>, after |-> <<>>] >>],
      [head |-> <<>>, subs |-> << [cmd |-> <<"c">>, slice |-> <<"[", "1", "]">>,
                                   after |-> <<>>] >>],
      [head |-> <<"x">>, subs |-> << [cmd |-> <<"c">>, slice |-> <<>>, after |-> <<"y">>] >>],
      [head |-> <<"x">>,
       subs |-> << [cmd |-> <<"c">>, slice |-> <<"[", "2", ".", ".", "1", "]">>,
                    after |-> <<"y">>],
                   [cmd |-> <<"d">>, slice |-> <<>>, after |-> <<"z">>] >>] }

\* The argument as it is typed.
RECURSIVE CmdSubsText(_, _)
CmdSubsText(subs, k) ==
    IF k > Len(subs) THEN <<>>
    ELSE <<"(">> \o subs[k].cmd \o <<")">> \o subs[k].slice \o subs[k].after
           \o CmdSubsText(subs, k + 1)

CmdText(sh) == sh.head \o CmdSubsText(sh.subs, 1)

CmdInputs == {CmdText(sh) : sh \in CmdShapes}

Inputs ==
    { <<>>, <<"x">>, <<"x", "/", "y">>, <<"a", "%", "b">>,
      <<"~">>, <<"~", "/", "x">>, <<"~", "u">>, <<"~", "n">>,
      <<"%", "s", "e", "l", "f">>, <<"%", "l", "a", "s", "t">>, <<"%">>,
      <<"%", "z">>, <<"%", "c">>, <<"%", "(", "c", ")">>,
      <<"$", "a">>, <<"$", "a", "$", "b">>, <<"$", "e">>, <<"$">>,
      <<"$", "a", "[", "z", "]">>, <<"$", "a", "[", "(", "c", ")", "]">>,
      <<"{", "x", ",", "y", "}">>, <<"{", "x">>, <<"}">>, <<"{", "}">>,
      <<"{", "x", ",", "y", "}", "*">>, <<"{", "$", "a", ",", "z", "}">>,
      <<"(", "c", ")">>, <<"(", "c", ")", "(", "d", ")">>,
      <<"(", "c", ")", "[", "1", "]">>, <<"(", "c", ")", "[", "z", "]">>,
      <<"(", "c">>, <<"x", "(", "c", ")", "y">>,
      <<"x", "*">>, <<"?">>, <<"'", "x", "'">>, <<"\"", "$", "a", "\"">>,
      <<"\\", "$">>, <<"x", ")">>, <<"%", "d">>, <<"%", "y">>,
      <<"~", "w", "/", "x">>, <<"/", "h", "/", "x">>,
      <<"{", "a", ",", "b", "}", "{", "c", ",", "d", "}">>,
      <<"x", "{", "a", ",", "b", "}", "y", "{", "c", "}">>,
      <<"{", "x", "*", ",", "y", "}">>, <<"{", "y", ",", "x", "*", "}">> }
    \cup BraceInputs \cup CmdInputs

FlagSets ==
    { {}, {EXPAND_FOR_COMPLETIONS}, {EXPAND_SKIP_CMDSUBST}, {EXPAND_SKIP_VARIABLES},
      {EXPAND_SKIP_WILDCARDS}, {EXPAND_SKIP_HOME_DIRECTORIES}, {EXECUTABLES_ONLY},
      {EXPAND_SKIP_JOBS}, {EXPAND_SPECIAL_FOR_CD},
      {EXPAND_FOR_COMPLETIONS, EXPAND_SKIP_HOME_DIRECTORIES} }

\* What the caller's output list holds when expand_string is called.
OutBefore == <<Completion(<<"p">>)>>

ExecCommands == { <<"c">>, <<"d">> }

ExecLinePool == << <<"1">>, <<"x">>, <<"2">>, <<"y">>, <<"3">> >>

\* The lines of d: the first one is a character the shell would interpret.
ExecStarPool == << <<"*">>, <<"y">>, <<"3">> >>

ExecOutcomes(cmd) ==
    {ExecFailed, ExecTooMuch}
    \cup {ExecLines(SubSeq(IF cmd = <<"d">> THEN ExecStarPool ELSE ExecLinePool, 1, n)) :
            n \in 0..MaxLines}

\* What running the commands of a string can give (a command that is not
\* run needs no outcome).
ExecOracles(in) ==
    LET cmds == {cmd \in ExecCommands : Contains(in, "(") /\ Contains(in, cmd[1])}
    IN  { e \in [cmds -> UNION {ExecOutcomes(cmd) : cmd \in cmds}] :
            \A cmd \in cmds : e[cmd] \in ExecOutcomes(cmd) }

Pwd == <<"/", "w", "/">>

WildcardPatterns == { <<"x", ANY_STRING>>, <<"y", ANY_STRING>> }

\* The paths the matcher is given when a path is completed: the argument
\* ~/x, ~w/x or /h/x after the home directory stage, or with the marker left
\* in place.
PathPatterns(in) ==
    IF in = <<"~", "/", "x">>
    THEN { <<"/", "h", "/", "x">>, <<HOME_DIRECTORY, "/", "x">>, <<>> }
    ELSE IF in = <<"~", "w", "/", "x">>
    THEN { <<"~", "w", "/", "x">>, <<HOME_DIRECTORY, "w", "/", "x">> }
    ELSE IF in = <<"/", "h", "/", "x">> THEN { <<"/", "h", "/", "x">> }
    ELSE {}

\* The completions of a path: the path itself continued, as a replacement
\* of the token and as a plain completion, a replacement that lies
\* elsewhere, and a suffix.
PathFound(path) ==
    LET shown == IF path # <<>> /\ path[1] = HOME_DIRECTORY
                 THEN <<"/", "h">> \o Tail(path) ELSE path
    IN  << [completion |-> shown \o <<"a">>, flags |-> {COMPLETE_REPLACES_TOKEN}],
           [completion |-> shown \o <<"b">>, flags |-> {}],
           [completion |-> <<"/", "o", "/", "x">>, flags |-> {COMPLETE_REPLACES_TOKEN}],
           [completion |-> <<"c">>, flags |-> {}] >>

\* What the matcher can do with a pattern: be cancelled, find nothing, or
\* find two files (which it reports in the order of the directory).
MatcherOutcomes(wc) ==
    IF wc \notin WildcardPatterns
    THEN { [res |-> 0, found |-> <<>>], [res |-> 4, found |-> PathFound(wc)] }
    ELSE
    { [res |-> -1, found |-> <<>>],
      [res |-> 0, found |-> <<>>],
      [res |-> 2, found |-> <<Completion(<<wc[1], "b">>), Completion(<<wc[1], "a">>)>>] }

\* The directories the matcher can be given: the working directory, or
\* those of CDPATH.  Only for the argument x* do the outcomes differ from
\* one directory to the other.
MatcherDirs(in) ==
    IF in = <<"x", "*">>
    THEN {Pwd, <<"/", "p">>, <<"/", "w", "/", ".">>, <<"/", "q">>}
    ELSE {Pwd}

\* What the matcher can do with the patterns a string leads to.
Matchers(in) ==
    LET wcs == {wc \in WildcardPatterns : Contains(in, "*") /\ Contains(in, wc[1])}
               \cup PathPatterns(in)
    IN  { m \in [{<<wc, d>> : wc \in wcs, d \in MatcherDirs(in)}
                   -> UNION {MatcherOutcomes(wc) : wc \in wcs}] :
            \A wc \in wcs, d \in MatcherDirs(in) : m[<<wc, d>>] \in MatcherOutcomes(wc) }

Jobs ==
    << [job_id |-> 1, pgid |-> 11, command |-> <<"c", " ", "x">>,
        processes |-> << [pid |-> 12, actual_cmd |-> <<"/", "b", "/", "d">>] >>] >>

\* The job lists a call can meet: for %self, also one with a job whose
\* command begins with the pattern.
JobLists(in) ==
    IF in = <<"%", "s", "e", "l", "f">>
    THEN { Jobs,
           Jobs \o << [job_id |-> 2, pgid |-> 21,
                       command |-> <<"s", "e", "l", "f", "i", "e">>,
                       processes |-> << [pid |-> 22,
                                         actual_cmd |-> <<"s", "e", "l", "f", "i", "e">>] >>] >> }
    ELSE {Jobs}

BaseSystem ==
    [exec |-> <<>>,
     passwd |-> (<<"u">> :> <<"/", "h">>),
     realpath |-> (<<"/", "h">> :> <<"/", "h">>) @@ (<<"/", "l">> :> <<"/", "h">>),
     jobs |-> Jobs,
     procs |-> << [name |-> <<"y">>, pid |-> 13] >>,
     self_pid |-> 10,
     last_bg_pid |-> 0,
     matcher |-> <<>>,
     pwd |-> Pwd]

\* The systems that differ in what the call can observe.
Systems(in) ==
    { [BaseSystem EXCEPT !.exec = e, !.matcher = m, !.last_bg_pid = bg, !.jobs = js] :
        e \in ExecOracles(in),
        m \in Matchers(in),
        js \in JobLists(in),
        bg \in (IF in = <<"%", "l", "a", "s", "t">> THEN {0, 11} ELSE {0}) }

Init ==
    /\ SliceOff /\ VariablesOff /\ ProcessOff /\ TildeOff /\ AbbrOff
    /\ env \in {DriverEnv, DriverEnvNoHome} /\ history = <<>> /\ is_main_thread = TRUE
    /\ pc = "idle" /\ op = "none" /\ input = <<>> /\ flags = {}
    /\ out_completions = <<>> /\ out_before = <<>> /\ errors = <<>>
    /\ completions = <<>> /\ output_storage = <<>>
    /\ stage_idx = 0 /\ i = 0 /\ total_result = EXPAND_OK
    /\ ret = "none" /\ in_out = <<>> /\ calls = <<>> /\ sys = NoSystem

\* expand_string is entered: the early out, or the single initial completion.
Enter(o, s, f, before, y) ==
    LET clean == EXPAND_FOR_COMPLETIONS \notin f /\ expand_is_clean(s) IN
    /\ op' = o /\ input' = s /\ flags' = f /\ sys' = y
    /\ out_before' = before /\ in_out' = s
    /\ errors' = <<>> /\ calls' = <<>>
    /\ output_storage' = <<>> /\ stage_idx' = 0 /\ i' = 0 /\ total_result' = EXPAND_OK
    /\ completions' = IF clean THEN <<>> ELSE <<Completion(s)>>
    /\ out_completions' = IF clean /\ o = "expand_string"
                          THEN Append(before, Completion(s)) ELSE before
    /\ pc' = IF clean THEN "done" ELSE "stages"
    /\ ret' = IF ~clean THEN "none"
              ELSE IF o = "expand_string" THEN EXPAND_OK ELSE "true"
    /\ UNCHANGED <<extvars, slvars, vvars, pvars, tvars>>

\* Without HOME only the arguments that begin with a tilde are expanded.
InputsHere == IF HomeName \in DOMAIN env THEN Inputs
              ELSE {s \in Inputs : s # <<>> /\ s[1] = "~"}

CallExpandString ==
    /\ pc = "idle"
    /\ \E s \in InputsHere, f \in FlagSets :
         \E y \in Systems(s) : Enter("expand_string", s, f, OutBefore, y)

\* expand_one passes its own empty list and adds EXPAND_NO_DESCRIPTIONS.
CallExpandOne ==
    /\ pc = "idle"
    /\ \E s \in InputsHere, f \in FlagSets :
         \E y \in Systems(s) :
             Enter("expand_one", s, f \cup {EXPAND_NO_DESCRIPTIONS}, <<>>, y)

\* One turn of the inner loop: the stage was invoked on completions[i] and
\* gave r.
Invoked(stage, r) ==
    /\ output_storage' = r.out
    /\ errors' = r.errors
    /\ total_result' = update_total_result(r.result, total_result)
    /\ calls' = Append(calls, [stage |-> stage, input |-> completions[i + 1].completion,
                               result |-> r.result,
                               ran |-> IF "ran" \in DOMAIN r THEN r.ran ELSE <<>>,
                               tried |-> IF "tried" \in DOMAIN r THEN r.tried ELSE <<>>])
    /\ i' = i + 1
    /\ UNCHANGED <<pc, op, input, flags, out_completions, out_before, completions,
                   stage_idx, ret, in_out, sys, extvars, slvars, vvars, pvars, tvars>>

AtStage(k) ==
    /\ pc = "stages" /\ stage_idx = k
    /\ stage_loop_continues(total_result, i, Len(completions))

StageCmdsubst ==
    /\ AtStage(0)
    /\ \E last_status \in {STATUS_OTHER, STATUS_READ_TOO_MUCH} :
         Invoked("cmdsubst",
                 expand_stage_cmdsubst(completions[i + 1].completion, output_storage,
                                       flags, errors, last_status, sys.exec))

StageVariables ==
    /\ AtStage(1)
    /\ Invoked("variables",
               expand_stage_variables(completions[i + 1].completion, output_storage,
                                      flags, errors))

StageBrackets ==
    /\ AtStage(2)
    /\ Invoked("brackets",
               expand_stage_brackets(completions[i + 1].completion, output_storage,
                                     flags, errors))

StageHomeAndPid ==
    /\ AtStage(3)
    /\ Invoked("home_and_pid",
               expand_stage_home_and_pid(completions[i + 1].completion, output_storage,
                                         flags, errors, sys))

StageWildcards ==
    /\ AtStage(4)
    /\ Invoked("wildcards",
               expand_stage_wildcards(completions[i + 1].completion, output_storage,
                                      flags, errors, sys))

\* The inner loop is left: the output becomes the input of the next stage.
NextStage ==
    /\ pc = "stages"
    /\ ~stage_loop_continues(total_result, i, Len(completions))
    /\ completions' = output_storage
    /\ output_storage' = <<>>
    /\ stage_idx' = stage_idx + 1
    /\ i' = 0
    /\ pc' = IF pipeline_continues(total_result, stage_idx + 1) THEN "stages" ELSE "finish"
    /\ UNCHANGED <<op, input, flags, out_completions, out_before, errors, total_result,
                   ret, in_out, calls, sys, extvars, slvars, vvars, pvars, tvars>>

\* What expand_string appends to the caller's list after the loop.
expand_string_inserted ==
    IF total_result # EXPAND_ERROR
    THEN IF EXPAND_SKIP_HOME_DIRECTORIES \notin flags
         THEN unexpand_tildes(input, completions, sys) ELSE completions
    ELSE <<>>

ExpandStringReturn ==
    /\ pc = "finish" /\ op = "expand_string"
    /\ out_completions' = out_completions \o expand_string_inserted
    /\ ret' = total_result
    /\ pc' = "done"
    /\ UNCHANGED <<op, input, flags, out_before, errors, completions, output_storage,
                   stage_idx, i, total_result, in_out, calls, sys, extvars, slvars, vvars, pvars, tvars>>

\* expand_string returns to expand_one, which tests what it got.
ExpandOneReturn ==
    /\ pc = "finish" /\ op = "expand_one"
    /\ LET got == out_completions \o expand_string_inserted
           success == expand_one_succeeds(total_result, Len(got))
       IN  /\ out_completions' = got
           /\ in_out' = IF success THEN got[1].completion ELSE in_out
           /\ ret' = IF success THEN "true" ELSE "false"
    /\ pc' = "done"
    /\ UNCHANGED <<op, input, flags, out_before, errors, completions, output_storage,
                   stage_idx, i, total_result, calls, sys, extvars, slvars, vvars, pvars, tvars>>

Next ==
    \/ CallExpandString \/ CallExpandOne
    \/ StageCmdsubst \/ StageVariables \/ StageBrackets \/ StageHomeAndPid
    \/ StageWildcards \/ NextStage
    \/ ExpandStringReturn \/ ExpandOneReturn

Spec == Init /\ [][Next]_vars

(***************************************************************************)
(* SpecProcess: find_process, one step of a thread at a time.  The caller   *)
(* runs on the main thread or on a background thread (is_main_thread);      *)
(* the main thread owns the job list, which changes while a background      *)
(* caller runs, and services the requests of iothread_perform_on_main       *)
(* (iothread.cpp): run at once when the caller is the main thread,          *)
(* otherwise queued for the main thread while the caller waits until the    *)
(* request is done.                                                         *)
(*   p_pc      the caller's position in find_process                        *)
(*   p_proc, p_flags, p_out   its arguments                                 *)
(*   p_found   the local that find_job's result is assigned to              *)
(*   p_jobs    the job list                                                 *)
(*   p_queue   the requests waiting for the main thread                     *)
(*   p_done    whether the caller's request has been serviced               *)
(*   p_reads   the reads of the job list so far: the thread that read and   *)
(*             the caller's position at that moment                         *)
(*   p_changes the changes of the job list so far                           *)
(***************************************************************************)
MaxJobChanges == 1

ProcessPatterns ==
    { <<>>, <<"1">>, <<"c">>, <<"d">>, <<"y">>, <<"z">>, <<"s">> }

ProcessFlagSets ==
    { {}, {EXPAND_SKIP_JOBS}, {EXPAND_FOR_COMPLETIONS},
      {EXPAND_SKIP_JOBS, EXPAND_FOR_COMPLETIONS} }

ProcessInit ==
    /\ DriverOff /\ SliceOff /\ VariablesOff /\ TildeOff /\ AbbrOff
    /\ env = <<>> /\ history = <<>> /\ is_main_thread \in BOOLEAN
    /\ p_pc = "start"
    /\ p_proc \in ProcessPatterns
    /\ p_flags \in ProcessFlagSets
    /\ p_out = <<>> /\ p_found = FALSE
    /\ p_jobs \in {Jobs, <<>>}
    /\ p_queue = <<>> /\ p_done = FALSE /\ p_reads = <<>> /\ p_changes = 0

\* The thread the caller runs on.
calling_thread == IF is_main_thread THEN "main" ELSE "background"

\* find_process up to the search of the job list, were the job list searched
\* whatever the flags.
find_process_begin_always(flgs) == "perform_on_main"

\* find_process up to the search of the job list: skipped with
\* EXPAND_SKIP_JOBS, otherwise handed to iothread_perform_on_main.
find_process_begin(flgs) ==
    IF EXPAND_SKIP_JOBS \notin flgs THEN "perform_on_main" ELSE "iterate"

\* iothread_perform_on_main: on the main thread the function runs at once,
\* on another thread it is queued and the caller waits.
iothread_perform_on_main(on_main) == IF on_main THEN "inline" ELSE "waiting"

\* find_job has run on thread t and gave r.
JobsRead(t, r) ==
    /\ p_found' = r.found
    /\ p_out' = r.out
    /\ p_reads' = Append(p_reads, [thread |-> t, caller |-> p_pc])

FindProcessBegin ==
    /\ p_pc = "start"
    /\ p_pc' = find_process_begin(p_flags)
    /\ UNCHANGED <<p_proc, p_flags, p_out, p_found, p_jobs, p_queue, p_done, p_reads,
                   p_changes, extvars, dvars, slvars, vvars, tvars>>

PerformOnMain ==
    /\ p_pc = "perform_on_main"
    /\ p_pc' = iothread_perform_on_main(is_main_thread)
    /\ p_queue' = IF is_main_thread THEN p_queue
                  ELSE Append(p_queue, [proc |-> p_proc, flags |-> p_flags])
    /\ UNCHANGED <<p_proc, p_flags, p_out, p_found, p_jobs, p_done, p_reads,
                   p_changes, extvars, dvars, slvars, vvars, tvars>>

\* The caller is the main thread: find_job runs in the call.
FindJobInline ==
    /\ p_pc = "inline"
    /\ JobsRead(calling_thread, find_job(p_proc, p_flags, p_out, p_jobs))
    /\ p_done' = TRUE
    /\ p_pc' = "performed"
    /\ UNCHANGED <<p_proc, p_flags, p_jobs, p_queue, p_changes,
                   extvars, dvars, slvars, vvars, tvars>>

\* The main thread services the first request of the queue.
MainServicesRequest ==
    /\ p_queue # <<>>
    /\ JobsRead("main", find_job(p_queue[1].proc, p_queue[1].flags, p_out, p_jobs))
    /\ p_queue' = Tail(p_queue)
    /\ p_done' = TRUE
    /\ UNCHANGED <<p_pc, p_proc, p_flags, p_jobs, p_changes,
                   extvars, dvars, slvars, vvars, tvars>>

\* The waiting caller is woken once its request is done.
PerformOnMainReturns ==
    /\ p_pc = "waiting"
    /\ p_done
    /\ p_pc' = "performed"
    /\ UNCHANGED <<p_proc, p_flags, p_out, p_found, p_jobs, p_queue, p_done, p_reads,
                   p_changes, extvars, dvars, slvars, vvars, tvars>>

\* if (found) return; otherwise on to the processes of the system.
FindProcessFound ==
    /\ p_pc = "performed"
    /\ p_pc' = IF p_found THEN "done" ELSE "iterate"
    /\ UNCHANGED <<p_proc, p_flags, p_out, p_found, p_jobs, p_queue, p_done, p_reads,
                   p_changes, extvars, dvars, slvars, vvars, tvars>>

\* The loop over the processes of the system.
FindProcessIterate ==
    /\ p_pc = "iterate"
    /\ p_out' = find_process_iterate(p_proc, p_flags, p_out, BaseSystem.procs)
    /\ p_pc' = "done"
    /\ UNCHANGED <<p_proc, p_flags, p_found, p_jobs, p_queue, p_done, p_reads,
                   p_changes, extvars, dvars, slvars, vvars, tvars>>

\* The main thread, between requests: the first job of the list ends.
MainChangesJobs ==
    /\ ~is_main_thread
    /\ p_pc # "done"
    /\ p_changes < MaxJobChanges
    /\ p_jobs # <<>>
    /\ p_jobs' = Tail(p_jobs)
    /\ p_changes' = p_changes + 1
    /\ UNCHANGED <<p_pc, p_proc, p_flags, p_out, p_found, p_queue, p_done, p_reads,
                   extvars, dvars, slvars, vvars, tvars>>

ProcessNext ==
    \/ FindProcessBegin \/ PerformOnMain \/ FindJobInline \/ MainServicesRequest
    \/ PerformOnMainReturns \/ FindProcessFound \/ FindProcessIterate
    \/ MainChangesJobs

SpecProcess == ProcessInit /\ [][ProcessNext]_vars

(***************************************************************************)
(* SpecTilde: expand_home_directory and replace_home_directory_with_tilde  *)
(* applied to one string, under every value of HOME of HomeValues: missing, *)
(* without a value, empty, a canonical directory, a link to it, and a       *)
(* directory that does not resolve.  The user u exists, the user w does     *)
(* not.                                                                     *)
(*   t_pc   "start" or "done"                                               *)
(*   t_op   the function applied                                            *)
(*   t_in   its argument                                                    *)
(*   t_out  the string it leaves (expand_home_directory works in place)     *)
(***************************************************************************)
HomeValues ==
    { Missing, Present(<<>>), Present(<< <<>> >>), Present(<< <<"/", "h">> >>),
      Present(<< <<"/", "l">> >>), Present(<< <<"/", "n">> >>) }

HomeInputs ==
    { <<HOME_DIRECTORY>>, <<HOME_DIRECTORY, "/", "x">>, <<HOME_DIRECTORY, "/">>,
      <<HOME_DIRECTORY, "u">>, <<HOME_DIRECTORY, "u", "/", "x">>,
      <<HOME_DIRECTORY, "w">>, <<HOME_DIRECTORY, "w", "/", "x">>,
      <<"x">>, <<"~", "/", "x">>, <<"x", HOME_DIRECTORY>>, <<>> }

TildePaths ==
    { <<"/", "h">>, <<"/", "h", "/">>, <<"/", "h", "/", "x">>, <<"/", "h", "x">>,
      <<"/", "l", "/", "x">>, <<"/", "n", "/", "x">>, <<"h", "/", "x">>,
      <<"/", "x">>, <<"/">>, <<"~", "/", "x">>, <<>> }

TildeInit ==
    /\ DriverOff /\ SliceOff /\ VariablesOff /\ ProcessOff /\ AbbrOff
    /\ history = <<>> /\ is_main_thread = TRUE
    /\ \E home \in HomeValues :
         env = IF home.present THEN (HomeName :> home.vals) ELSE <<>>
    /\ t_pc = "start"
    /\ t_op \in {"expand_home_directory", "replace_home_directory_with_tilde"}
    /\ t_in \in (IF t_op = "expand_home_directory" THEN HomeInputs ELSE TildePaths)
    /\ t_out = t_in

ExpandHomeDirectory ==
    /\ t_pc = "start" /\ t_op = "expand_home_directory"
    /\ t_out' = expand_home_directory(t_in, BaseSystem)
    /\ t_pc' = "done"
    /\ UNCHANGED <<t_op, t_in, extvars, dvars, slvars, vvars, pvars>>

ReplaceHomeDirectoryWithTilde ==
    /\ t_pc = "start" /\ t_op = "replace_home_directory_with_tilde"
    /\ t_out' = replace_home_directory_with_tilde(t_in, BaseSystem)
    /\ t_pc' = "done"
    /\ UNCHANGED <<t_op, t_in, extvars, dvars, slvars, vvars, pvars>>

TildeNext == ExpandHomeDirectory \/ ReplaceHomeDirectoryWithTilde

SpecTilde == TildeInit /\ [][TildeNext]_vars

(***************************************************************************)
(* SpecAbbr: the abbreviation map under update_abbr_cache and              *)
(* expand_abbreviation, with the environment changing between the calls.   *)
(***************************************************************************)

\* L"_fish_abbr_", the prefix of the variables that back abbreviations.
AbbrPrefix == <<"_", "f", "i", "s", "h", "_", "a", "b", "b", "r", "_">>

HexDigits == Digits \cup {"A", "B", "C", "D", "E", "F", "a", "b", "c", "d", "e", "f"}

\* The characters that the two-digit codes in use stand for.
HexCoded == (<<"6", "1">> :> "a") @@ (<<"2", "1">> :> "!")

\* unescape_string(.., STRING_STYLE_VAR): __ is an underscore, _XX the
\* character of code XX; an underscore that ends the string is accepted
\* only after a code, and one before any other character is skipped.
RECURSIVE unescape_string_var(_, _, _, _)
unescape_string_var(in, k, result, prev_was_hex_encoded) ==
    IF k >= Len(in) THEN [ok |-> TRUE, str |-> result]
    ELSE IF At0(in, k) # "_"
    THEN unescape_string_var(in, k + 1, Append(result, At0(in, k)), FALSE)
    ELSE IF At0(in, k + 1) = NUL
    THEN [ok |-> prev_was_hex_encoded, str |-> result]
    ELSE IF At0(in, k + 1) = "_"
    THEN unescape_string_var(in, k + 2, Append(result, "_"), FALSE)
    ELSE IF At0(in, k + 1) \in HexDigits
    THEN IF <<At0(in, k + 1), At0(in, k + 2)>> \in DOMAIN HexCoded
         THEN unescape_string_var(in, k + 3,
                  Append(result, HexCoded[<<At0(in, k + 1), At0(in, k + 2)>>]), TRUE)
         ELSE [ok |-> FALSE, str |-> result]
    ELSE unescape_string_var(in, k + 1, result, FALSE)

\* The key a variable name stands for: what follows the prefix, decoded.
abbr_of(varname) == unescape_string_var(From0(varname, Len(AbbrPrefix)), 0, <<>>, FALSE)

\* abbreviations.erase(abbr).
abbreviations_erase(map, abbr) == [k \in DOMAIN map \ {abbr} |-> map[k]]

\* abbreviations.emplace(abbr, value): an entry that exists is kept.
abbreviations_emplace(map, abbr, value) ==
    IF abbr \in DOMAIN map THEN map ELSE (abbr :> value) @@ map

\* L"ERASE", the op that removes an abbreviation.
ERASE == <<"E", "R", "A", "S", "E">>

\* Mutant of update_abbr_cache: the entry is not erased first.
update_abbr_cache_no_erase(oper, varname, map) ==
    LET abbr == abbr_of(varname)
        expansion == env_get(varname)
    IN  IF ~abbr.ok THEN map
        ELSE IF oper # ERASE
        THEN IF ~missing_or_empty(expansion)
             THEN abbreviations_emplace(map, abbr.str, join_with_spaces(expansion.vals))
             ELSE map
        ELSE abbreviations_erase(map, abbr.str)

\* update_abbr_cache(op, varname): the map it leaves (oper is its op).
update_abbr_cache(oper, varname, map) ==
    LET abbr == abbr_of(varname)
        erased == abbreviations_erase(map, abbr.str)
        expansion == env_get(varname)
    IN  IF ~abbr.ok THEN map
        ELSE IF oper # ERASE
        THEN IF ~missing_or_empty(expansion)
             THEN abbreviations_emplace(erased, abbr.str, join_with_spaces(expansion.vals))
             ELSE erased
        ELSE erased

\* expand_abbreviation(src, output): whether it found src, and *output.
expand_abbreviation(src, output, map) ==
    IF src = <<>> THEN [ok |-> FALSE, output |-> output]
    ELSE IF src \notin DOMAIN map THEN [ok |-> FALSE, output |-> output]
    ELSE [ok |-> TRUE, output |-> map[src]]

\* The variables that back abbreviations: for the keys a (written a and
\* _61_), b and the empty key, and one that is not encoded correctly (an
\* underscore ends it after __).
AbbrVarNames ==
    { AbbrPrefix \o rest :
        rest \in { <<"a">>, <<"_", "6", "1", "_">>, <<"b">>, <<>>, <<"_", "_", "_">> } }

\* The variables that are set and erased between the calls, and the values
\* they take; the other variables keep their value.
AbbrChanging == { AbbrPrefix \o <<"a">>, AbbrPrefix \o <<"b">> }

AbbrValues(varname) ==
    IF varname = AbbrPrefix \o <<"a">>
    THEN { <<>>, << <<>> >>, << <<"x">>, <<"y">> >> }
    ELSE { << <<"x">> >> }

AbbrEnv ==
    (AbbrPrefix \o <<"_", "6", "1", "_">> :> << <<"z">> >>)
    @@ (AbbrPrefix :> << <<"x">> >>)
    @@ (AbbrPrefix \o <<"_", "_", "_">> :> << <<"x">> >>)

AbbrOps == { ERASE, <<"S", "E", "T">> }

AbbrSources == { <<>>, <<"a">>, <<"b">>, <<"c">> }

\* What *output holds before the lookup.
AbbrOutputBefore == <<"o">>

AbbrInit ==
    /\ DriverOff /\ SliceOff /\ VariablesOff /\ ProcessOff /\ TildeOff
    /\ env = AbbrEnv /\ history = <<>> /\ is_main_thread = TRUE
    /\ abbreviations = <<>> /\ a_pc = "idle" /\ a_last = <<>> /\ a_call = NoCall

UpdateAbbrCache ==
    /\ a_pc = "idle"
    /\ \E oper \in AbbrOps, varname \in AbbrVarNames :
         /\ abbreviations' = update_abbr_cache(oper, varname, abbreviations)
         /\ a_last' = IF abbr_of(varname).ok
                      THEN (abbr_of(varname).str :> [op |-> oper, read |-> env_get(varname)])
                           @@ a_last
                      ELSE a_last
         /\ a_call' = [kind |-> "update", arg |-> varname, ok |-> abbr_of(varname).ok,
                       output |-> <<>>, before |-> abbreviations]
    /\ UNCHANGED <<a_pc, env, history, is_main_thread, dvars, slvars, vvars, pvars, tvars>>

ExpandAbbreviation ==
    /\ a_pc = "idle"
    /\ \E src \in AbbrSources :
         LET r == expand_abbreviation(src, AbbrOutputBefore, abbreviations) IN
         a_call' = [kind |-> "expand", arg |-> src, ok |-> r.ok, output |-> r.output,
                    before |-> abbreviations]
    /\ UNCHANGED <<abbreviations, a_pc, a_last, env, history, is_main_thread,
                   dvars, slvars, vvars, pvars, tvars>>

\* A backing variable is set or erased.
EnvChanges ==
    /\ a_pc = "idle"
    /\ \E varname \in AbbrChanging :
         \/ /\ varname \in DOMAIN env
            /\ env' = [n \in DOMAIN env \ {varname} |-> env[n]]
         \/ \E vals \in AbbrValues(varname) :
              /\ env_get(varname) # Present(vals)
              /\ env' = (varname :> vals) @@ env
    /\ UNCHANGED <<abbreviations, a_pc, a_last, a_call, history, is_main_thread,
                   dvars, slvars, vvars, pvars, tvars>>

AbbrNext == UpdateAbbrCache \/ ExpandAbbreviation \/ EnvChanges

SpecAbbr == AbbrInit /\ [][AbbrNext]_vars

(***************************************************************************)
(* Claims about slices (SpecSlice).                                        *)
(***************************************************************************)
\* An endpoint as written to the endpoint it denotes.
Endpoint(n, size) == IF n < 0 THEN size + n + 1 ELSE n

Smaller(m, n) == IF m < n THEN m ELSE n

Ascending(lo, hi) == [k \in 1..(hi - lo + 1) |-> lo + k - 1]

Descending(hi, lo) == [k \in 1..(hi - lo + 1) |-> hi - k + 1]

\* C9: a range a..b against a list of `size` elements contributes no index
\* when both endpoints (negative ones converted to size+n+1) exceed size;
\* otherwise each endpoint beyond size is clamped to size and the range
\* contributes every index from the first endpoint to the second inclusive,
\* ascending when a <= b and descending otherwise.  The variable selection
\* then keeps the elements at the indexes inside 1..size, in that order.
C9_RangeClamping ==
    (sl_tok.kind = "range" /\ sl_pc # "start") =>
        LET size == Len(sl_list)
            e1 == Endpoint(sl_tok.a, size)
            e2 == Endpoint(sl_tok.b, size)
            c1 == Smaller(e1, size)
            c2 == Smaller(e2, size)
            expected == IF e1 > size /\ e2 > size THEN <<>>
                        ELSE IF e1 <= e2 THEN Ascending(c1, c2)
                        ELSE Descending(c1, c2)
            inside == SelectSeq(expected, LAMBDA n : n >= 1 /\ n <= size)
        IN  /\ sl_pc # "failed"
            /\ sl_res.idx = expected
            /\ sl_pc = "selected_variable" =>
                   sl_sel = [k \in 1..Len(inside) |-> sl_list[inside[k]]]

\* C9 witness: with 3 values, [1..10] has been parsed, clamped, and selects
\* the elements 1, 2, 3.
C9_Witness ==
    /\ sl_pc = "selected_variable"
    /\ sl_tok = [kind |-> "range", a |-> 1, b |-> 10]
    /\ Len(sl_list) = 3
    /\ sl_res.idx = <<1, 2, 3>>
    /\ sl_sel = sl_list

\* C10: a single index i against a list of n values selects element i when
\* 1 <= i <= n, the k-th element from the end when i = -k with 1 <= k <= n,
\* and nothing otherwise; it never produces an error.  This holds of the
\* selection from a variable and of the selection from the lines of a
\* command substitution.
C10_SingleIndex ==
    sl_tok.kind = "index" =>
        LET n == Len(sl_list)
            idx == sl_tok.a
            expected == IF 1 <= idx /\ idx <= n THEN <<sl_list[idx]>>
                        ELSE IF 0 - n <= idx /\ idx <= -1 THEN <<sl_list[n + idx + 1]>>
                        ELSE <<>>
        IN  /\ sl_pc # "failed"
            /\ sl_pc \in {"selected_variable", "selected_cmdsubst"} =>
                   sl_sel = expected

\* C10 witness: the index -2 has selected the second of three lines of a
\* command substitution.
C10_Witness ==
    /\ sl_pc = "selected_cmdsubst"
    /\ sl_tok = [kind |-> "index", a |-> -2, b |-> 0]
    /\ Len(sl_list) = 3
    /\ sl_sel = <<sl_list[2]>>

(***************************************************************************)
(* Claims about the variable stage (SpecVariables).                        *)
(***************************************************************************)
\* A string as the user sees it: INTERNAL_SEPARATOR is invisible.
Visible(s) == SelectSeq(s, LAMBDA c : c # INTERNAL_SEPARATOR)

\* The variable a name denotes in the current state.
Denoted(name) ==
    IF name = HistoryName
    THEN (IF is_main_thread THEN Present(history) ELSE Missing)
    ELSE env_get(name)

RECURSIVE SpaceJoined(_)
SpaceJoined(items) ==
    IF Len(items) = 0 THEN <<>>
    ELSE SpaceJoined(SubSeq(items, 1, Len(items) - 1))
           \o (IF Len(items) > 1 THEN <<" ">> ELSE <<>>) \o items[Len(items)]

\* The input holds exactly one reference: a marker, a name and no bad slice.
OneReference(marker) ==
    /\ v_pc # "start"
    /\ v_shape.r1 = NoRef
    /\ v_shape.r2.marker = marker
    /\ v_shape.r2.name # <<>>
    /\ v_shape.r2.slice # <<"[", "x", "]">>

\* C6: normal expansion of a string whose only variable reference is $v,
\* without a slice, yields one output per value of v, in value order, each
\* the surrounding text with the value in place of the reference (behind an
\* invisible INTERNAL_SEPARATOR when text precedes it); a missing variable
\* yields no output, success and no error.
C6_NormalExpansion ==
    (OneReference(VARIABLE_EXPAND) /\ v_shape.r2.slice = <<>>) =>
        LET v == Denoted(v_shape.r2.name)
            sep == IF v_shape.pre = <<>> THEN <<>> ELSE <<INTERNAL_SEPARATOR>>
        IN  /\ v_res.ok
            /\ v_res.errors = <<>>
            /\ Len(v_res.out) = Len(v.vals)
            /\ \A k \in 1..Len(v_res.out) :
                 /\ v_res.out[k].completion =
                        v_shape.pre \o sep \o v.vals[k] \o v_shape.suf
                 /\ Visible(v_res.out[k].completion) =
                        v_shape.pre \o v.vals[k] \o v_shape.suf

\* C6 witness: p$a/s with a = [x, y] has been expanded to px/s and py/s.
C6_Witness ==
    /\ v_pc = "done"
    /\ v_in = <<"p", VARIABLE_EXPAND, "a", "/", "s">>
    /\ env[NameA] = << <<"x">>, <<"y">> >>
    /\ Len(v_res.out) = 2
    /\ Visible(v_res.out[1].completion) = <<"p", "x", "/", "s">>
    /\ Visible(v_res.out[2].completion) = <<"p", "y", "/", "s">>

\* C7: expansion of a string whose only variable reference is a
\* single-expansion marker yields exactly one output whatever the variable's
\* state: the surrounding text with the selected values joined by single
\* spaces in place of the reference, and with nothing in its place when the
\* variable is missing or has no values.
C7_SingleExpansion ==
    OneReference(VARIABLE_EXPAND_SINGLE) =>
        LET v == Denoted(v_shape.r2.name)
            selected == IF v_shape.r2.slice = <<>> THEN v.vals
                        ELSE select_items(v.vals,
                                 parse_slice(v_shape.r2.slice, Len(v.vals)).idx)
        IN  /\ v_res.ok
            /\ v_res.errors = <<>>
            /\ Len(v_res.out) = 1
            /\ Visible(v_res.out[1].completion) =
                   v_shape.pre \o SpaceJoined(selected) \o v_shape.suf
            /\ (~v.present \/ v.vals = <<>>) =>
                   Visible(v_res.out[1].completion) = v_shape.pre \o v_shape.suf

\* C7 witness: the single expansion of a = [x, y] inside p.../s has yielded
\* the one string "px y/s".
C7_Witness ==
    /\ v_pc = "done"
    /\ v_in = <<"p", VARIABLE_EXPAND_SINGLE, "a", "/", "s">>
    /\ env[NameA] = << <<"x">>, <<"y">> >>
    /\ Len(v_res.out) = 1
    /\ Visible(v_res.out[1].completion) = <<"p", "x", " ", "y", "/", "s">>

\* The input is pre $a$b suf, two adjacent normal references without slices.
TwoAdjacent ==
    /\ v_pc # "start"
    /\ v_shape.r1 = [marker |-> VARIABLE_EXPAND, name |-> NameA, slice |-> <<>>]
    /\ v_shape.mid = <<>>
    /\ v_shape.r2 = [marker |-> VARIABLE_EXPAND, name |-> NameB, slice |-> <<>>]

\* C8 as claimed: $a$b yields p*q outputs in the order "for each a, for each
\* b": the value of a varies slowest and the value of b fastest.
C8_Original ==
    TwoAdjacent =>
        LET p == Len(env[NameA])
            q == Len(env[NameB])
        IN  /\ v_res.ok
            /\ Len(v_res.out) = p * q
            /\ \A ia \in 1..p, ib \in 1..q :
                 Visible(v_res.out[(ia - 1) * q + ib].completion) =
                     v_shape.pre \o env[NameA][ia] \o env[NameB][ib] \o v_shape.suf

\* C8 as amended: $a$b yields p*q outputs in the order "for each b, for each
\* a": the value of b varies slowest and the value of a fastest.
C8_Amended ==
    TwoAdjacent =>
        LET p == Len(env[NameA])
            q == Len(env[NameB])
        IN  /\ v_res.ok
            /\ Len(v_res.out) = p * q
            /\ \A ia \in 1..p, ib \in 1..q :
                 Visible(v_res.out[(ib - 1) * p + ia].completion) =
                     v_shape.pre \o env[NameA][ia] \o env[NameB][ib] \o v_shape.suf

\* C8 witness: $a$b with a = [x, y] and b = [1, 2] has been expanded to
\* x1, y1, x2, y2.
C8_Witness ==
    /\ v_pc = "done"
    /\ v_in = <<VARIABLE_EXPAND, "a", VARIABLE_EXPAND, "b">>
    /\ env[NameA] = << <<"x">>, <<"y">> >>
    /\ env[NameB] = << <<"1">>, <<"2">> >>
    /\ [k \in 1..Len(v_res.out) |-> Visible(v_res.out[k].completion)] =
           << <<"x", "1">>, <<"y", "1">>, <<"x", "2">>, <<"y", "2">> >>

(***************************************************************************)
(* Claims about the pipeline (Spec).                                       *)
(***************************************************************************)
Completing == EXPAND_FOR_COMPLETIONS \in flags

Returned == pc = "done"

\* The stage invocations of the call that returned EXPAND_ERROR.
ErrorCalls == {k \in 1..Len(calls) : calls[k].result = EXPAND_ERROR}

\* C1: as soon as a stage invocation returns EXPAND_ERROR no other stage
\* invocation follows it (neither on the remaining completions of the stage
\* nor in a later stage), expand_string returns EXPAND_ERROR, and the
\* caller's output list is as it was before the call.
C1_ErrorHalts ==
    /\ \A k \in ErrorCalls : k = Len(calls)
    /\ ErrorCalls # {} =>
         /\ total_result = EXPAND_ERROR
         /\ out_completions = out_before
         /\ (Returned /\ op = "expand_string" => ret = EXPAND_ERROR)

\* expand_string has returned after a stage failed on a completion that was
\* not the first of the stage (so that the stage had produced results) and
\* before the last stage.
C1_Witness ==
    /\ Returned /\ op = "expand_string" /\ ret = EXPAND_ERROR
    /\ Len(calls) >= 2
    /\ calls[Len(calls)].result = EXPAND_ERROR
    /\ calls[Len(calls)].stage = "home_and_pid"
    /\ calls[Len(calls) - 1].stage = "home_and_pid"
    /\ out_completions = out_before /\ out_before # <<>>

\* C2 (as stated): a call without EXPAND_FOR_COMPLETIONS that has put an
\* entry in the error list returns EXPAND_ERROR.
C2_ErrorRecordedMeansError ==
    (Returned /\ ~Completing /\ errors # <<>>) => total_result = EXPAND_ERROR

\* The characterisation of a clean string in words: empty, or not starting
\* with ~ or % and holding none of $ * ? \ " ' ( ) { }.
CleanInput(s) ==
    \/ s = <<>>
    \/ /\ s[1] \notin {"~", "%"}
       /\ \A k \in 1..Len(s) :
            s[k] \notin {"$", "*", "?", "\\", "\"", "'", "(", ")", "{", "}"}

\* C3: on a clean input and without EXPAND_FOR_COMPLETIONS, expand_string
\* appends exactly the input to the output list, returns EXPAND_OK and
\* invokes no stage.
C3_CleanInput ==
    (pc # "idle" /\ op = "expand_string" /\ ~Completing /\ CleanInput(input)) =>
        /\ Returned
        /\ out_completions = Append(out_before, Completion(input))
        /\ ret = EXPAND_OK
        /\ calls = <<>>
        /\ errors = <<>>

C3_Witness ==
    /\ Returned /\ op = "expand_string" /\ ~Completing
    /\ CleanInput(input) /\ Len(input) >= 2
    /\ out_completions = Append(out_before, Completion(input))

\* C4: expand_one returns true exactly when the pipeline gives one result
\* and no error, and then its argument is that result; when it returns
\* false its argument is what it was.  (On a clean string without
\* EXPAND_FOR_COMPLETIONS the pipeline gives the string itself, C3.)
C4_ExpandOne ==
    (Returned /\ op = "expand_one") =>
        IF ~Completing /\ CleanInput(input)
        THEN ret = "true" /\ in_out = input
        ELSE /\ ret = "true" <=>
                  (total_result # EXPAND_ERROR /\ Len(out_completions) = 1)
             /\ ret = "true" => in_out = out_completions[1].completion
             /\ ret = "false" => in_out = input
             /\ ret \in {"true", "false"}

\* expand_one has returned true and its argument has changed.
C4_Witness ==
    /\ Returned /\ op = "expand_one" /\ ret = "true"
    /\ calls # <<>> /\ in_out # input
    /\ Len(out_completions) = 1

\* C5: while the result of the call is EXPAND_WILDCARD_MATCH, a stage
\* invocation that returns EXPAND_WILDCARD_NO_MATCH leaves it so.
C5_MatchKept ==
    [][(/\ pc = "stages" /\ total_result = EXPAND_WILDCARD_MATCH
        /\ Len(calls') = Len(calls) + 1
        /\ calls'[Len(calls')].result = EXPAND_WILDCARD_NO_MATCH)
       => total_result' = EXPAND_WILDCARD_MATCH]_vars

\* A stage invocation has just returned EXPAND_WILDCARD_NO_MATCH after one
\* that returned EXPAND_WILDCARD_MATCH.
C5_Witness ==
    /\ pc = "stages" /\ Len(calls) >= 2
    /\ calls[Len(calls)].result = EXPAND_WILDCARD_NO_MATCH
    /\ calls[Len(calls) - 1].result = EXPAND_WILDCARD_MATCH
    /\ total_result = EXPAND_WILDCARD_MATCH

(***************************************************************************)
(* Further claims about the variable stage (SpecVariables).                *)
(***************************************************************************)
\* Some marker of the input is followed by an empty name.
EmptyNameReference ==
    \/ v_shape.r1.marker # NUL /\ v_shape.r1.name = <<>>
    \/ v_shape.r2.name = <<>>

\* C11: whenever the input holds a variable marker followed by an empty
\* name, expand_variables fails and records a syntax error, wherever the
\* marker stands and whatever the other variables expand to.
C11_EmptyNameFails ==
    (v_pc # "start" /\ EmptyNameReference) =>
        /\ ~v_res.ok
        /\ \E k \in 1..Len(v_res.errors) : v_res.errors[k].code = parse_error_syntax

(***************************************************************************)
(* Further claims about the pipeline (Spec).                               *)
(***************************************************************************)
\* The strings the variable stage has output so far in the call.
VariableStageOutputs ==
    IF pc = "stages" /\ stage_idx = 1 THEN Texts(output_storage)
    ELSE IF pc = "stages" /\ stage_idx = 2 THEN Texts(completions)
    ELSE <<>>

\* C12: under every flag set, EXPAND_SKIP_VARIABLES included, no string
\* output by the variable stage holds a VARIABLE_EXPAND or
\* VARIABLE_EXPAND_SINGLE marker, nor a VARIABLE_EXPAND_EMPTY marker.
C12_NoMarkerLeft ==
    \A k \in 1..Len(VariableStageOutputs) :
        ~ContainsAny(VariableStageOutputs[k],
                     {VARIABLE_EXPAND, VARIABLE_EXPAND_SINGLE, VARIABLE_EXPAND_EMPTY})

\* The leaf alternatives of a brace shape in source order, each between the
\* text that surrounds it.
RECURSIVE Flattened(_, _, _)
RECURSIVE FlattenedAlts(_, _, _, _)
FlattenedAlts(alts, k, before, after) ==
    IF k > Len(alts) THEN <<>>
    ELSE Flattened(alts[k], before, after) \o FlattenedAlts(alts, k + 1, before, after)

Flattened(sh, before, after) ==
    IF sh.alts = <<>> THEN << before \o sh.pre \o after >>
    ELSE FlattenedAlts(sh.alts, 1, before \o sh.pre, sh.suf \o after)

RECURSIVE LeafCount(_)
RECURSIVE LeafCountAlts(_, _)
LeafCountAlts(alts, k) ==
    IF k > Len(alts) THEN 0 ELSE LeafCount(alts[k]) + LeafCountAlts(alts, k + 1)

LeafCount(sh) == IF sh.alts = <<>> THEN 1 ELSE LeafCountAlts(sh.alts, 1)

\* The brace stage is over and its outputs are the input of the next stage.
BraceStageDone == pc = "stages" /\ stage_idx = 3

\* C13: brace expansion of an argument with one outermost pair, whose
\* alternatives may hold pairs in turn, outputs the leaf alternatives in
\* left-to-right source order, each in the place of its pair, and as many
\* strings as there are leaf alternatives.
C13_NestedBraces ==
    \A sh \in BraceShapes :
        (BraceStageDone /\ input = BraceText(sh)) =>
            /\ Texts(completions) = Flattened(sh, <<>>, <<>>)
            /\ Len(completions) = LeafCount(sh)

\* C13 witness: p{a,b{1,2}}o has been expanded to pao, pb1o, pb2o.
C13_Witness ==
    /\ BraceStageDone
    /\ input = <<"p", "{", "a", ",", "b", "{", "1", ",", "2", "}", "}", "o">>
    /\ Texts(completions) = << <<"p", "a", "o">>, <<"p", "b", "1", "o">>,
                               <<"p", "b", "2", "o">> >>

\* The lines of the k-th substitution of a shape: what the command printed,
\* or of that what its slice selects.
CmdLines(sub) ==
    LET lines == exec_subshell(sys.exec, sub.cmd).lines
    IN  IF sub.slice = <<>> THEN lines
        ELSE slice_lines(lines, parse_slice(sub.slice, Len(lines)).idx)

\* The expansions of the text that follows prefix, from the k-th
\* substitution on: line-major, each prefix SEP escape(line) SEP tail.  A
\* substitution whose evaluation fails leaves no expansion.
RECURSIVE CmdExpected(_, _, _)
CmdExpected(subs, k, prefix) ==
    IF k > Len(subs) THEN << prefix >>
    ELSE IF exec_subshell(sys.exec, subs[k].cmd).ret = -1 THEN <<>>
    ELSE LET lines == CmdLines(subs[k])
             tails == CmdExpected(subs, k + 1, subs[k].after)
         IN  [n \in 1..(Len(lines) * Len(tails)) |->
                prefix \o <<INTERNAL_SEPARATOR>>
                  \o escape_string(lines[((n - 1) \div Len(tails)) + 1])
                  \o <<INTERNAL_SEPARATOR>>
                  \o tails[((n - 1) % Len(tails)) + 1]]

\* The command-substitution stage has been invoked on the argument (it is
\* invoked once, on the argument itself) and has succeeded.
CmdsubstSucceeded ==
    /\ pc = "stages" /\ stage_idx = 0 /\ i = 1
    /\ EXPAND_SKIP_CMDSUBST \notin flags
    /\ calls[1].result = EXPAND_OK

\* C14: when a command substitution is found and the stage succeeds, the
\* stage outputs |lines| * |tails| strings, line-major, each the prefix, an
\* INTERNAL_SEPARATOR, the escaped line, an INTERNAL_SEPARATOR and the tail;
\* a substitution without output lines yields no output.
C14_CmdsubstProduct ==
    \A sh \in CmdShapes :
        (CmdsubstSucceeded /\ input = CmdText(sh)) =>
            LET lines == CmdLines(sh.subs[1])
                tails == CmdExpected(sh.subs, 2, sh.subs[1].after)
            IN  /\ Len(output_storage) = Len(lines) * Len(tails)
                /\ Texts(output_storage) = CmdExpected(sh.subs, 1, sh.head)
                /\ lines = <<>> => output_storage = <<>>

\* C14 witness: (c)(d) with c printing 1, x and d printing *, y has been
\* expanded to the four strings 1'*', 1y, x'*', xy (separators apart).
C14_Witness ==
    /\ CmdsubstSucceeded
    /\ input = <<"(", "c", ")", "(", "d", ")">>
    /\ [k \in 1..Len(output_storage) |->
          SelectSeq(output_storage[k].completion, LAMBDA ch : ch # INTERNAL_SEPARATOR)] =
         << <<"1", "'", "*", "'">>, <<"1", "y">>, <<"x", "'", "*", "'">>, <<"x", "y">> >>

\* The call was made with EXPAND_SKIP_CMDSUBST and the command-substitution
\* stage has been invoked on the argument.
SkippingCmdsubst ==
    /\ EXPAND_SKIP_CMDSUBST \in flags
    /\ pc = "stages" /\ stage_idx = 0 /\ i = 1

\* No stage invocation of the call has given a command to exec_subshell.
NothingRan == \A k \in 1..Len(calls) : calls[k].ran = <<>>

\* The stage has recorded "Command substitutions not allowed" and returned
\* EXPAND_ERROR.
CmdsubstNotAllowed ==
    /\ calls[1].result = EXPAND_ERROR
    /\ output_storage = <<>>
    /\ Len(errors) = 1
    /\ errors[1].code = parse_error_cmdsubst
    /\ errors[1].text = "Command substitutions not allowed"

\* The stage has passed the argument through as its single output.
CmdsubstPassedThrough ==
    /\ calls[1].result = EXPAND_OK
    /\ output_storage = <<Completion(input)>>
    /\ errors = <<>>

\* C15 as claimed: with EXPAND_SKIP_CMDSUBST no command is ever run; an
\* argument that holds a command substitution makes the stage record
\* "Command substitutions not allowed" and return EXPAND_ERROR, and an
\* argument that holds none passes through unchanged as a single completion.
C15_Original ==
    /\ EXPAND_SKIP_CMDSUBST \in flags => NothingRan
    /\ SkippingCmdsubst =>
         IF parse_util_locate_cmdsubst(input, TRUE).ret = 1
         THEN CmdsubstNotAllowed ELSE CmdsubstPassedThrough

\* C15 as amended: with EXPAND_SKIP_CMDSUBST no command is ever run; an
\* argument in which no parenthesis is found passes through unchanged as a
\* single completion, and every other argument, one with a closing
\* parenthesis that nothing opened included, makes the stage record
\* "Command substitutions not allowed" and return EXPAND_ERROR.
C15_SkipCmdsubst ==
    /\ EXPAND_SKIP_CMDSUBST \in flags => NothingRan
    /\ SkippingCmdsubst =>
         IF parse_util_locate_cmdsubst(input, TRUE).ret = 0
         THEN CmdsubstPassedThrough ELSE CmdsubstNotAllowed

\* C15 witness: the call on (c) with EXPAND_SKIP_CMDSUBST, where running c
\* would print two lines, has returned EXPAND_ERROR without running it.
C15_Witness ==
    /\ EXPAND_SKIP_CMDSUBST \in flags
    /\ input = <<"(", "c", ")">>
    /\ Len(exec_subshell(sys.exec, <<"c">>).lines) = 2
    /\ pc = "done" /\ ret = EXPAND_ERROR
    /\ Len(calls) = 1 /\ calls[1].ran = <<>>

\* The messages of the errors of command substitution.
CmdsubstMessages ==
    { "Mismatched parenthesis",
      "Too much data emitted by command substitution so it was discarded\n",
      "Unknown error while evaulating command substitution",
      "Command substitutions not allowed" }

\* C16: every error of command substitution is in the error list at most
\* once and carries the command-substitution code, not the syntax code.
C16_CmdsubstErrorsOnce ==
    \A k \in 1..Len(errors) :
        errors[k].text \in CmdsubstMessages =>
            /\ errors[k].code = parse_error_cmdsubst
            /\ \A j \in 1..Len(errors) : errors[j].text = errors[k].text => j = k

\* The first directory whose count is below 0 (there is one).
FirstNegative(counts) ==
    CHOOSE n \in 1..Len(counts) :
        counts[n] < 0 /\ \A m \in 1..(n - 1) : counts[m] >= 0

\* What the claim gives for the counts the matcher returns in the working
\* directories, in the order they are tried.
AggregateResult(counts) ==
    IF \E n \in 1..Len(counts) : counts[n] < 0 THEN EXPAND_ERROR
    ELSE IF \E n \in 1..Len(counts) : counts[n] > 0 THEN EXPAND_WILDCARD_MATCH
    ELSE EXPAND_WILDCARD_NO_MATCH

\* The stage invocations in which the wildcard stage called the matcher.
MatcherCalls == {k \in 1..Len(calls) : calls[k].stage = "wildcards" /\ calls[k].tried # <<>>}

\* The counts the matcher returns for the k-th invocation's pattern in its
\* working directories.
MatcherCounts(k) ==
    LET wc == remove_internal_separator(calls[k].input, EXPAND_SKIP_WILDCARDS \in flags)
        dirs == effective_working_dirs(wc, flags, sys)
    IN  [n \in 1..Len(dirs) |-> wildcard_expand_string(sys, wc, dirs[n]).res]

\* C17: when the wildcard stage calls the matcher over its working
\* directories its result is EXPAND_ERROR if a directory returned a count
\* below 0, and then the directories after that one are not tried, whatever
\* matched before; otherwise EXPAND_WILDCARD_MATCH if a directory returned a
\* count above 0, and EXPAND_WILDCARD_NO_MATCH if none did, as it is for no
\* directory at all.
C17_WildcardResult ==
    /\ \A k \in MatcherCalls :
         LET counts == MatcherCounts(k)
             wc == remove_internal_separator(calls[k].input, EXPAND_SKIP_WILDCARDS \in flags)
             dirs == effective_working_dirs(wc, flags, sys)
         IN  /\ calls[k].result = AggregateResult(counts)
             /\ calls[k].tried =
                  IF \E n \in 1..Len(counts) : counts[n] < 0
                  THEN SubSeq(dirs, 1, FirstNegative(counts)) ELSE dirs
    /\ sys # NoSystem =>
         wildcard_dirs(sys, <<"x", ANY_STRING>>, <<>>, 1, EXPAND_WILDCARD_NO_MATCH, <<>>).result
             = EXPAND_WILDCARD_NO_MATCH

\* C17 witness: x* for cd, with CDPATH of three directories: the first
\* matched, the second was cancelled, the third (which would match) was not
\* tried, and the stage returned EXPAND_ERROR.
C17_Witness ==
    /\ EXPAND_SPECIAL_FOR_CD \in flags
    /\ input = <<"x", "*">>
    /\ Len(calls) >= 1
    /\ calls[Len(calls)].stage = "wildcards"
    /\ MatcherCounts(Len(calls)) = <<2, -1, 2>>
    /\ Len(calls[Len(calls)].tried) = 2
    /\ calls[Len(calls)].result = EXPAND_ERROR

\* C18: every invocation of the wildcard stage either calls the matcher
\* (whenever a wildcard marker is left once the separators are removed, or
\* the call is for completions), or, with no wildcard marker and not for
\* completions, appends exactly the string without its
\* INTERNAL_SEPARATORs and returns EXPAND_OK; outside completion no string
\* is dropped without the matcher having been called.
C18_MatcherOrPassThrough ==
    [][ (Len(calls') = Len(calls) + 1 /\ calls'[Len(calls')].stage = "wildcards") =>
          LET call == calls'[Len(calls')]
              wc == remove_internal_separator(call.input, EXPAND_SKIP_WILDCARDS \in flags)
          IN  IF wildcard_has(wc) \/ Completing
              THEN call.tried # <<>>
              ELSE /\ call.tried = <<>>
                   /\ call.result = EXPAND_OK
                   /\ output_storage' = Append(output_storage, Completion(wc)) ]_vars

\* The step is an invocation of the home directory and process stage, not
\* for completions, on a string that begins with PROCESS_EXPAND once its
\* separators are removed.
ProcessExpansionStep ==
    /\ Len(calls') = Len(calls) + 1
    /\ calls'[Len(calls')].stage = "home_and_pid"
    /\ ~Completing
    /\ LET s == remove_internal_separator(calls'[Len(calls')].input, FALSE)
       IN  s # <<>> /\ s[1] = PROCESS_EXPAND

\* C19: outside completion, a process expansion that yields no pid and no
\* job id appends an "Unknown command" syntax error and makes the stage
\* fail: for no pattern, %self, %last, % and %N included, does the stage
\* succeed without an output.
C19_NoProcessIsAnError ==
    [][ (ProcessExpansionStep /\ Len(output_storage') = Len(output_storage)) =>
          LET call == calls'[Len(calls')]
              proc == Tail(remove_internal_separator(call.input, FALSE))
          IN  /\ call.result = EXPAND_ERROR
              /\ Len(errors') = Len(errors) + 1
              /\ errors'[Len(errors')].code = parse_error_syntax
              /\ errors'[Len(errors')].text = "Unknown command " \o Str(proc) ]_vars

\* The texts of the numbers n(k), for the k in 1..len with keep(k), in order.
NumbersOf(len, keep(_), n(_)) ==
    Concat([k \in 1..len |-> IF keep(k) THEN << to_string(n(k)) >> ELSE <<>>])

\* The sources of a process expansion, in the stated order of resolution.
LiveJobs == SelectSeq(sys.jobs, LAMBDA j : j.command # <<>>)

SourceBare(proc) ==
    IF proc = <<>> /\ LiveJobs # <<>> THEN << to_string(LiveJobs[1].pgid) >> ELSE <<>>

SourceJobId(proc) ==
    IF proc # <<>> /\ iswnumeric(proc)
    THEN NumbersOf(Len(LiveJobs), LAMBDA k : to_string(LiveJobs[k].job_id) = proc,
                   LAMBDA k : LiveJobs[k].pgid)
    ELSE <<>>

SourceJobCommand(proc) ==
    NumbersOf(Len(LiveJobs), LAMBDA k : match_pid(LiveJobs[k].command, proc).match,
              LAMBDA k : LiveJobs[k].pgid)

SourceJobProcesses(proc) ==
    Concat([k \in 1..Len(LiveJobs) |->
              NumbersOf(Len(LiveJobs[k].processes),
                        LAMBDA n : LiveJobs[k].processes[n].actual_cmd # <<>>
                                   /\ match_pid(LiveJobs[k].processes[n].actual_cmd, proc).match,
                        LAMBDA n : LiveJobs[k].processes[n].pid)])

SourceSymbolic(proc) ==
    IF proc = SELF_STR THEN << to_string(sys.self_pid) >>
    ELSE IF proc = LAST_STR /\ sys.last_bg_pid > 0 THEN << to_string(sys.last_bg_pid) >>
    ELSE <<>>

SourceProcesses(proc) ==
    NumbersOf(Len(sys.procs), LAMBDA k : match_pid(sys.procs[k].name, proc).match,
              LAMBDA k : sys.procs[k].pid)

\* The output of the first source that yields a match.
Resolved(proc) ==
    IF SourceBare(proc) # <<>> THEN SourceBare(proc)
    ELSE IF SourceJobId(proc) # <<>> THEN SourceJobId(proc)
    ELSE IF SourceJobCommand(proc) # <<>> THEN SourceJobCommand(proc)
    ELSE IF SourceJobProcesses(proc) # <<>> THEN SourceJobProcesses(proc)
    ELSE IF SourceSymbolic(proc) # <<>> THEN SourceSymbolic(proc)
    ELSE SourceProcesses(proc)

\* C20: outside completion a process expansion consults its sources in the
\* stated order (bare %, numeric job id, job command, the jobs' processes,
\* self and last, the processes of the system) and its output is that of
\* the first source that yields a match: a job whose command matches wins
\* over the names self and last.
C20_ResolutionOrder ==
    [][ (ProcessExpansionStep /\ EXPAND_SKIP_JOBS \notin flags) =>
          LET proc == Tail(remove_internal_separator(calls'[Len(calls')].input, FALSE))
          IN  Texts(SubSeq(output_storage', Len(output_storage) + 1, Len(output_storage')))
                = Resolved(proc) ]_vars

(***************************************************************************)
(* Claims about the process search (SpecProcess).                          *)
(***************************************************************************)

\* The caller has gone past the search of the job list.
PastJobSearch == p_pc \in {"performed", "iterate", "done"}

\* C21: the job list is read on the main thread only, whichever thread
\* calls find_process; while find_job runs the caller is inside
\* iothread_perform_on_main, and it goes on (to the processes of the system
\* or to its return) only after find_job has finished; with EXPAND_SKIP_JOBS
\* the job list is not read at all.
C21_JobsReadOnMain ==
    /\ \A k \in DOMAIN p_reads :
         /\ p_reads[k].thread = "main"
         /\ p_reads[k].caller = iothread_perform_on_main(is_main_thread)
    /\ (PastJobSearch /\ EXPAND_SKIP_JOBS \notin p_flags) => (p_done /\ Len(p_reads) = 1)
    /\ EXPAND_SKIP_JOBS \in p_flags => p_reads = <<>>

\* A background caller whose request the main thread has serviced after the
\* job list changed, and which went on to the processes of the system.
C21_Witness ==
    /\ ~is_main_thread
    /\ p_pc = "done"
    /\ p_changes = 1
    /\ Len(p_reads) = 1
    /\ p_reads[1] = [thread |-> "main", caller |-> "waiting"]
    /\ ~p_found

(***************************************************************************)
(* Claims about threads and the variable stage (SpecVariables).            *)
(***************************************************************************)

\* A name of the length of "history" that no environment holds.
AbsentName == <<"h", "i", "s", "t", "o", "r", "x">>

\* The shape with the absent name in place of the name history.
AsAbsent(sh) ==
    [sh EXCEPT !.r1.name = IF @ = HistoryName THEN AbsentName ELSE @,
               !.r2.name = IF @ = HistoryName THEN AbsentName ELSE @]

HistoryReferenced == v_pc # "start" /\ HistoryName \in {v_shape.r1.name, v_shape.r2.name}

\* C22: the variable stage reads the history store only on the main thread.
\* On any other thread a reference to history reads neither the history
\* store nor the environment and behaves as a reference to a missing
\* variable: a slice is parsed against size 1, the normal expansion yields
\* nothing, and the whole result is that of the same string with a missing
\* name.
C22_HistoryOnMainThreadOnly ==
    HistoryReferenced =>
        /\ ("history" \in lookup_variable(HistoryName).reads) <=> is_main_thread
        /\ ~is_main_thread =>
             /\ lookup_variable(HistoryName).reads = {}
             /\ ~lookup_variable(HistoryName).var.present
             /\ ~lookup_variable(HistoryName).history.present
             /\ effective_val_count(lookup_variable(HistoryName)) = 1
             /\ AbsentName \notin DOMAIN env
             /\ v_res = expand_variables(ShapeText(AsAbsent(v_shape)), <<>>, Len(v_in), <<>>)
             /\ (v_shape.r2.marker = VARIABLE_EXPAND /\ v_shape.r2.slice # <<"[", "x", "]">>)
                   => (v_res.ok /\ v_res.out = <<>> /\ v_res.errors = <<>>)

\* $history[2] has been expanded on a background thread, with two items in
\* the history store: nothing came out.
C22_Witness ==
    /\ ~is_main_thread
    /\ v_pc = "done"
    /\ v_shape.r2 = [marker |-> VARIABLE_EXPAND, name |-> HistoryName,
                     slice |-> <<"[", "2", "]">>]
    /\ Len(history) = 2
    /\ v_res.out = <<>>

(***************************************************************************)
(* Claims about the home directory (SpecTilde).                            *)
(***************************************************************************)

\* The user name of a string that begins with the marker or with a tilde:
\* the text between its first character and the first slash.
UserName(s) ==
    LET rest == Tail(s)
        slashes == {k \in 1..Len(rest) : rest[k] = "/"}
    IN  IF slashes = {} THEN rest
        ELSE SubSeq(rest, 1, (CHOOSE k \in slashes : \A m \in slashes : k <= m) - 1)

\* HOME is missing or empty.
NoHome ==
    \/ HomeName \notin DOMAIN env
    \/ env[HomeName] = <<>>
    \/ env[HomeName] = << <<>> >>

\* The canonical form of HOME, where HOME names a directory that resolves.
HomeResolves == ~NoHome /\ env[HomeName][1] \in DOMAIN BaseSystem.realpath

ResolvedHome == BaseSystem.realpath[env[HomeName][1]]

HomeExpanded == t_pc = "done" /\ t_op = "expand_home_directory"

\* C23: on a string that begins with HOME_DIRECTORY and has no user name,
\* expand_home_directory puts the resolved home directory in place of the
\* marker alone and keeps the rest; with HOME missing or empty the whole
\* string, rest included, becomes empty; and with the name of a user that
\* cannot be resolved the marker becomes a literal ~ and the rest is kept.
C23_HomeDirectory ==
    (HomeExpanded /\ t_in # <<>> /\ t_in[1] = HOME_DIRECTORY) =>
        /\ (UserName(t_in) = <<>> /\ HomeResolves) => t_out = ResolvedHome \o Tail(t_in)
        /\ (UserName(t_in) = <<>> /\ NoHome) => t_out = <<>>
        /\ (UserName(t_in) # <<>> /\ UserName(t_in) \notin DOMAIN BaseSystem.passwd)
              => t_out = <<"~">> \o Tail(t_in)

\* ~/x has been expanded with HOME a link to /h.
C23_Witness ==
    /\ HomeExpanded
    /\ t_in = <<HOME_DIRECTORY, "/", "x">>
    /\ HomeResolves
    /\ env[HomeName][1] # ResolvedHome
    /\ t_out = <<"/", "h", "/", "x">>

HomeReplaced == t_pc = "done" /\ t_op = "replace_home_directory_with_tilde"

\* The path is absolute and begins with the resolved home directory and a
\* slash.
UnderHome(path) ==
    /\ path # <<>> /\ path[1] = "/"
    /\ HomeResolves
    /\ Len(path) > Len(ResolvedHome)
    /\ SubSeq(path, 1, Len(ResolvedHome) + 1) = ResolvedHome \o <<"/">>

\* C25: replace_home_directory_with_tilde returns its argument unchanged
\* unless the argument is an absolute path that begins with the user's
\* resolved home directory followed by a slash; then that prefix, and nothing
\* else, is replaced by ~/.  With HOME missing or empty no path is rewritten.
C25_ReplaceHomeDirectory ==
    HomeReplaced =>
        t_out = IF UnderHome(t_in)
                THEN <<"~", "/">> \o SubSeq(t_in, Len(ResolvedHome) + 2, Len(t_in))
                ELSE t_in

\* What expand_string has appended to the caller's list.
Inserted == SubSeq(out_completions, Len(out_before) + 1, Len(out_completions))

\* The call went through the stages without an error and has returned:
\* completions is the list the last stage left.
PipelineReturned == pc = "done" /\ stage_idx > 0 /\ total_result # EXPAND_ERROR

\* The home directory the argument names, where it resolves: that of HOME,
\* or of the user named after the tilde.
InputHome ==
    LET name == UserName(input)
        dir == IF name = <<>>
               THEN (IF NoHome THEN None ELSE Some(env[HomeName][1]))
               ELSE (IF name \in DOMAIN sys.passwd THEN Some(sys.passwd[name]) ELSE None)
    IN  IF dir.present /\ dir.val \in DOMAIN sys.realpath
        THEN Some(sys.realpath[dir.val]) ELSE None

\* The completion the pass leaves for c when the completions that begin with
\* prefix are to be given back their tilde.
Unexpanded(c, prefix) ==
    IF COMPLETE_REPLACES_TOKEN \in c.flags /\ string_prefixes_string(prefix, c.completion)
    THEN [completion |-> <<"~">> \o UserName(input) \o From0(c.completion, Len(prefix)),
          flags |-> c.flags \cup {COMPLETE_DONT_ESCAPE_TILDES}]
    ELSE c

Depth(s, p) ==
    Cardinality({k \in 1..(p - 1) : s[k] = BRACKET_BEGIN})
      - Cardinality({k \in 1..(p - 1) : s[k] = BRACKET_END})

\* The positions at which an outermost pair begins.
TopBegins(s) == {p \in 1..Len(s) : s[p] = BRACKET_BEGIN /\ Depth(s, p) = 0}

Least(S) == CHOOSE x \in S : \A y \in S : x <= y

\* The elements of a set of numbers, in ascending order.
Sorted(S) == [k \in 1..Cardinality(S) |-> CHOOSE x \in S : Cardinality({y \in S : y < x}) = k - 1]

\* The end of the pair that begins at p.
PairEnd(s, p) == Least({q \in (p + 1)..Len(s) : s[q] = BRACKET_END /\ Depth(s, q) = 1})

\* The outputs of a brace expansion of s that enumerates the alternatives of
\* the pair beginning at p and leaves the rest to the recursive calls.
EnumeratedAt(s, p, flgs) ==
    LET q == PairEnd(s, p)
        cuts == Sorted({p, q} \cup {k \in (p + 1)..(q - 1) :
                                      s[k] = BRACKET_SEP /\ Depth(s, k) = 1})
    IN  Concat([k \in 1..(Len(cuts) - 1) |->
                  Texts(expand_brackets(SubSeq(s, 1, p - 1)
                                          \o SubSeq(s, cuts[k] + 1, cuts[k + 1] - 1)
                                          \o SubSeq(s, q + 1, Len(s)),
                                        flgs, <<>>, <<>>).out)])

\* The brace stage has just succeeded on a string with several outermost
\* pairs.
SeveralPairsStep ==
    /\ Len(calls') = Len(calls) + 1
    /\ calls'[Len(calls')].stage = "brackets"
    /\ calls'[Len(calls')].result = EXPAND_OK
    /\ Cardinality(TopBegins(calls'[Len(calls')].input)) > 1

\* C27: on a string with several outermost brace pairs expand_brackets
\* records the first, leftmost pair: the alternatives of that pair are
\* enumerated at this level, the other pairs are expanded by the recursive
\* calls.
C27_FirstPairEnumerated ==
    [][ SeveralPairsStep =>
          LET s == calls'[Len(calls')].input
          IN  /\ brackets_scan(s, 0, brackets_scan_start).bracket_begin + 1
                    = Least(TopBegins(s))
              /\ Texts(SubSeq(output_storage', Len(output_storage) + 1, Len(output_storage')))
                    = EnumeratedAt(s, Least(TopBegins(s)), flags) ]_vars

TooMuchMessage == "Too much data emitted by command substitution so it was discarded\n"

\* The offset in s of the parenthesis that opens the substitution of cmd.
ParenOffset(s, cmd) ==
    Least({k \in 1..Len(s) : s[k] = "(" /\ Sub0(s, k, Len(cmd)) = cmd}) - 1

\* The command-substitution stage has just failed on a substitution that
\* emitted too much.
TooMuchStep ==
    /\ Len(calls') = Len(calls) + 1
    /\ calls'[Len(calls')].stage = "cmdsubst"
    /\ Len(errors') = Len(errors) + 1
    /\ errors'[Len(errors')].text = TooMuchMessage

\* C28: when a substitution emits too much, expand_cmdsubst fails and the
\* error it records has the code of command substitution and, as its
\* source_start, the offset of the opening parenthesis of that substitution
\* in the input of the stage.
C28_TooMuchPosition ==
    [][ TooMuchStep =>
          LET call == calls'[Len(calls')]
              e == errors'[Len(errors')]
          IN  /\ call.result = EXPAND_ERROR
              /\ e.code = parse_error_cmdsubst
              /\ e.source_start = ParenOffset(call.input, call.ran[Len(call.ran)]) ]_vars

(***************************************************************************)
(* Claims about the recursion of expand_variables (SpecVariables).         *)
(***************************************************************************)

\* The calls of expand_variables below the call on (instr, last_idx), each
\* with the call that makes it.
RECURSIVE CallsBelow(_, _)
CallsBelow(instr, last_idx) ==
    LET made == variables_calls(instr, last_idx)
    IN  { [parent |-> [instr |-> instr, last_idx |-> last_idx], child |-> made[k]] :
            k \in 1..Len(made) }
        \cup UNION { CallsBelow(made[k].instr, made[k].last_idx) : k \in 1..Len(made) }

\* C29: expand_variables terminates: every recursive call gets a last_idx
\* that is below its caller's, namely the position of the marker the caller
\* processed, and that is at most the length of the string it comes with;
\* what was substituted stands at or after that position (before it the
\* string is the caller's), so it is never scanned for markers.
C29_VariablesTerminate ==
    v_pc # "start" =>
        \A e \in CallsBelow(v_in, Len(v_in)) :
            /\ e.child.last_idx < e.parent.last_idx
            /\ e.child.last_idx = locate_varexp(e.parent.instr, e.parent.last_idx)
            /\ e.child.last_idx >= 0
            /\ e.child.last_idx <= Len(e.child.instr)
            /\ Sub0(e.child.instr, 0, e.child.last_idx)
                  = Sub0(e.parent.instr, 0, e.child.last_idx)

\* $a$b with two values each has been expanded: two calls below the first,
\* four outputs.
C29_Witness ==
    /\ v_pc = "done"
    /\ v_shape.r1.marker = VARIABLE_EXPAND /\ v_shape.r1.name = NameA
    /\ v_shape.r2.marker = VARIABLE_EXPAND /\ v_shape.r2.name = NameB
    /\ v_shape.r2.slice = <<>>
    /\ Len(env[NameA]) = 2 /\ Len(env[NameB]) = 2
    /\ Cardinality(CallsBelow(v_in, Len(v_in))) >= 2
    /\ Len(v_res.out) = 4

(***************************************************************************)
(* Claims about the result over several completions (Spec).                *)
(***************************************************************************)

\* The invocations of the wildcard stage in the call.
WildcardCalls == {k \in 1..Len(calls) : calls[k].stage = "wildcards"}

\* C30: when expand_string has run the wildcard stage on several
\* completions, at least one invocation returned EXPAND_WILDCARD_MATCH and
\* none returned EXPAND_ERROR, it returns EXPAND_WILDCARD_MATCH, whatever
\* the order of the invocations and whether the others returned EXPAND_OK
\* or EXPAND_WILDCARD_NO_MATCH.
C30_MatchWins ==
    (/\ Returned /\ op = "expand_string"
     /\ Cardinality(WildcardCalls) >= 2
     /\ \E k \in WildcardCalls : calls[k].result = EXPAND_WILDCARD_MATCH
     /\ \A k \in WildcardCalls : calls[k].result # EXPAND_ERROR)
    => ret = EXPAND_WILDCARD_MATCH

(***************************************************************************)
(* Claims about the abbreviation map (SpecAbbr).                           *)
(***************************************************************************)

\* The entry of a key in a map: none, or its expansion.
Entry(map, k) == IF k \in DOMAIN map THEN <<map[k]>> ELSE <<>>

\* The keys and source strings in use.
AbbrKeys == {abbr_of(varname).str : varname \in AbbrVarNames} \cup AbbrSources

\* C26: after any sequence of update_abbr_cache calls expand_abbreviation(k)
\* succeeds for a non-empty key k exactly when the most recent update naming
\* k had an op other than "ERASE" and met the backing variable present and
\* non-empty, and it returns the value read by that update; an update for
\* one key leaves the entries of the other keys alone, expand_abbreviation
\* leaves the map alone, and the empty source string never matches.
C26_AbbreviationMap ==
    a_pc = "idle" =>
        /\ \A k \in AbbrKeys \ {<<>>} :
             LET r == expand_abbreviation(k, AbbrOutputBefore, abbreviations)
                 updated == /\ k \in DOMAIN a_last
                            /\ a_last[k].op # ERASE
                            /\ a_last[k].read.present
                            /\ a_last[k].read.vals # <<>>
                            /\ a_last[k].read.vals # << <<>> >>
             IN  /\ r.ok <=> updated
                 /\ r.ok => r.output = join_with_spaces(a_last[k].read.vals)
        /\ ~expand_abbreviation(<<>>, AbbrOutputBefore, abbreviations).ok
        /\ a_call.kind = "update" =>
             \A k \in AbbrKeys :
                 (~a_call.ok \/ k # abbr_of(a_call.arg).str)
                 => Entry(abbreviations, k) = Entry(a_call.before, k)
        /\ a_call.kind = "expand" =>
             /\ abbreviations = a_call.before
             /\ a_call.arg = <<>> => ~a_call.ok
             /\ a_call.ok <=> (a_call.arg # <<>> /\ a_call.arg \in DOMAIN abbreviations)
             /\ a_call.output = IF a_call.ok THEN abbreviations[a_call.arg]
                                ELSE AbbrOutputBefore

\* The key a was given the value "x y" through _fish_abbr_a, the variable
\* was erased afterwards, b was updated, and the lookup of a still gives
\* "x y".
C26_Witness ==
    /\ a_pc = "idle"
    /\ a_call.kind = "expand" /\ a_call.arg = <<"a">> /\ a_call.ok
    /\ a_call.output = <<"x", " ", "y">>
    /\ AbbrPrefix \o <<"a">> \notin DOMAIN env
    /\ <<"b">> \in DOMAIN abbreviations
    /\ <<>> \in DOMAIN abbreviations

=============================================================================
